---------------------------- MODULE Spec2Model ----------------------------
(***************************************************************************)
(* Model of roc's alias-analysis lowering (compiler/mono/src/              *)
(* alias_analysis.rs) and of the language server's document registry       *)
(* (crates/lang_srv/src/registry.rs).                                      *)
(*                                                                         *)
(* The lowering is a pure, recursive translation of IR procedures into     *)
(* calls on morphic_lib's builders.  A builder is modelled by the log of   *)
(* the operations it was asked to perform; every fallible builder call     *)
(* (one that returns Result and is followed by `?` in the source) may      *)
(* return an error, chosen by the index fail_at of the failing call.       *)
(***************************************************************************)
EXTENDS Naturals, Sequences, FiniteSets, TLC

RECURSIVE layout_spec(_, _)
RECURSIVE builtin_spec(_, _)
RECURSIVE build_tuple_type(_, _)
RECURSIVE build_tuple_type_loop(_, _, _, _)
RECURSIVE build_variant_types(_, _)
RECURSIVE build_variant_types_loop(_, _, _, _)

(***************************************************************************)
(* Layouts (crate::layout, used by the source through pattern matching).   *)
(***************************************************************************)
Builtin(b) == [tag |-> "Builtin", builtin |-> [b |-> b]]
Int64 == Builtin("Int64")
Int1 == Builtin("Int1")
Float64 == Builtin("Float64")
Str == Builtin("Str")
EmptyList == Builtin("EmptyList")
EmptyDict == Builtin("EmptyDict")
List(e) == [tag |-> "Builtin", builtin |-> [b |-> "List", elem |-> e]]
Dict(k, v) == [tag |-> "Builtin", builtin |-> [b |-> "Dict", key |-> k, value |-> v]]
Set(k) == [tag |-> "Builtin", builtin |-> [b |-> "Set", key |-> k]]
Struct(fs) == [tag |-> "Struct", fields |-> fs]
NonRecursive(tags) == [tag |-> "Union", union |-> [u |-> "NonRecursive", tags |-> tags]]
Recursive(tags) == [tag |-> "Union", union |-> [u |-> "Recursive", tags |-> tags]]
NonNullableUnwrapped(fs) ==
    [tag |-> "Union", union |-> [u |-> "NonNullableUnwrapped", fields |-> fs]]
NullableWrapped(id, tags) ==
    [tag |-> "Union", union |-> [u |-> "NullableWrapped", nullable_id |-> id, other_tags |-> tags]]
NullableUnwrapped(id, fs) ==
    [tag |-> "Union", union |-> [u |-> "NullableUnwrapped", nullable_id |-> id, other_fields |-> fs]]
RecursivePointer == [tag |-> "RecursivePointer"]
\* Layout::Closure(args, lambda_set, ret); the lambda set carries the set of
\* closure names with their captures and the runtime representation.
Closure(args, set, repr, ret) ==
    [tag |-> "Closure", args |-> args,
     lambda_set |-> [set |-> set, representation |-> repr], ret |-> ret]

runtime_representation(lambda_set) == lambda_set.representation

IsRecursiveUnion(l) == l.tag = "Union" /\ l.union.u # "NonRecursive"

(***************************************************************************)
(* 4.1 Naming encoder: func_name_bytes_help.                               *)
(***************************************************************************)
DEBUG == FALSE

SIZE == IF DEBUG THEN 50 ELSE 16

\* Width in bytes of a Symbol (u64) and of a hash (u64).
WORD_BYTES == 8


\* What one layout feeds to the hasher.  A closure layout feeds its lambda
\* set's runtime representation, any other layout feeds itself.
HashFeed(layout) ==
    IF layout.tag = "Closure"
    THEN runtime_representation(layout.lambda_set)
    ELSE layout

\* A hasher that is fed the return layout only.
layout_hash_return_only(argument_layouts, return_layout) == <<HashFeed(return_layout)>>

\* The state of the DefaultHasher after the argument layouts, in order, and
\* then the return layout were hashed into it.  The hasher starts from fixed
\* keys; finish() is taken to be collision-free, so the hash is represented
\* by the sequence of values that were fed.
layout_hash(argument_layouts, return_layout) ==
    [i \in 1..Len(argument_layouts) |-> HashFeed(argument_layouts[i])]
        \o <<HashFeed(return_layout)>>

\* Symbol::to_ne_bytes: byte i of the 64-bit symbol.
symbol_to_ne_bytes(symbol) ==
    [i \in 1..WORD_BYTES |-> [of |-> "symbol", sym |-> symbol, byte |-> i]]

\* u64::to_ne_bytes of a hash: byte i of the 64-bit hash.
hash_to_ne_bytes(hash) ==
    [i \in 1..WORD_BYTES |-> [of |-> "hash", feed |-> hash, byte |-> i]]

\* name_bytes starts as [0u8; SIZE]
ZeroByte == [of |-> "zero", byte |-> 0]

func_name_bytes_help(symbol, argument_layouts, return_layout) ==
    LET sbytes == symbol_to_ne_bytes(symbol)
        lbytes == hash_to_ne_bytes(layout_hash(argument_layouts, return_layout))
        source == sbytes \o lbytes
    IN  \* zip stops at the shorter of source and name_bytes
        [i \in 1..SIZE |-> IF i <= Len(source) THEN source[i] ELSE ZeroByte]

\* A key that leaves the argument layouts out.
func_name_bytes_no_arguments(proc) ==
    func_name_bytes_help(proc.name, <<>>, proc.ret_layout)

func_name_bytes(proc) ==
    func_name_bytes_help(proc.name,
                         [i \in 1..Len(proc.args) |-> proc.args[i].layout],
                         proc.ret_layout)

\* b"mainForHost"
ENTRY_POINT_NAME == [i \in 1..11 |-> [of |-> "ascii", text |-> "mainForHost", byte |-> i]]

MOD_APP == "UserApp"

STATIC_STR_NAME == symbol_to_ne_bytes("STR_ALIAS_ANALYSIS_STATIC")

(***************************************************************************)
(* morphic_lib builders.  The state threaded through the lowering of one   *)
(* definition:                                                             *)
(*   ops      the builder operations performed so far, in order            *)
(*   nv, nb, nc   the next fresh ValueId, BlockId, ContinuationId          *)
(*   calls    the number of fallible builder calls made so far             *)
(*   fail_at  the fallible call that returns Err (0: none does)            *)
(*   status   "ok", "err" (an Err is being returned through `?`) or        *)
(*            "panic" (an abrupt fault); once not "ok" nothing else runs   *)
(*   v, t     the ValueId / TypeId returned by the last call               *)
(*   env      Env: symbols and join_points                                 *)
(*   trace    ghost: entries and exits of stmt_spec                        *)
(*   depth    ghost: the nesting depth of the running stmt_spec call       *)
(***************************************************************************)
NoType == [t |-> "none"]
NoName == <<>>

\* An environment that still holds a binding of an earlier procedure.
EmptyEnv_stale == [symbols |-> [y \in {"r"} |-> 1], join_points |-> <<>>]

EmptyEnv == [symbols |-> <<>>, join_points |-> <<>>]

NewBuilder(fail_at) ==
    [ops |-> <<>>, nv |-> 1, nb |-> 1, nc |-> 1, calls |-> 0, fail_at |-> fail_at,
     status |-> "ok", v |-> 0, t |-> NoType, ts |-> <<>>, env |-> EmptyEnv,
     trace |-> <<>>, depth |-> 0]

Op(op, block, ins, ty, name, aux, res) ==
    [op |-> op, block |-> block, ins |-> ins, ty |-> ty, fname |-> name,
     aux |-> aux, res |-> res]

\* A fallible builder call that yields a fresh ValueId.
Emit(s, op, block, ins, ty, name, aux) ==
    IF s.status # "ok" THEN s
    ELSE IF s.calls + 1 = s.fail_at
         THEN [s EXCEPT !.status = "err", !.calls = @ + 1]
         ELSE [s EXCEPT !.calls = @ + 1, !.nv = @ + 1, !.v = s.nv,
                        !.ops = Append(@, Op(op, block, ins, ty, name, aux, s.nv))]

\* A fallible builder call that yields no new value (define_continuation,
\* build, add_const, add_func, ...).
Call(s, op, block, ins, ty, name, aux) ==
    IF s.status # "ok" THEN s
    ELSE IF s.calls + 1 = s.fail_at
         THEN [s EXCEPT !.status = "err", !.calls = @ + 1]
         ELSE [s EXCEPT !.calls = @ + 1,
                        !.ops = Append(@, Op(op, block, ins, ty, name, aux, 0))]

\* A fallible type-context call yielding the TypeId of the structural type ty.
EmitType(s, op, ty) ==
    IF s.status # "ok" THEN s
    ELSE IF s.calls + 1 = s.fail_at
         THEN [s EXCEPT !.status = "err", !.calls = @ + 1]
         ELSE [s EXCEPT !.calls = @ + 1, !.t = ty,
                        !.ops = Append(@, Op(op, 0, <<>>, ty, NoName, <<>>, 0))]

\* builder.add_block(): infallible.
add_block(s) ==
    IF s.status # "ok" THEN s
    ELSE [s EXCEPT !.nb = @ + 1, !.v = s.nb,
                   !.ops = Append(@, Op("add_block", s.nb, <<>>, NoType, NoName, <<>>, 0))]

\* context.add_heap_cell_type(): infallible.
add_heap_cell_type(s) ==
    IF s.status # "ok" THEN s
    ELSE [s EXCEPT !.t = [t |-> "heap_cell"],
                   !.ops = Append(@, Op("add_heap_cell_type", 0, <<>>, [t |-> "heap_cell"],
                                        NoName, <<>>, 0))]

TupleType(fs) == [t |-> "tuple", items |-> fs]
BagType(e) == [t |-> "bag", item |-> e]
UnionType(vs) == [t |-> "union", variants |-> vs]

add_tuple_type(s, fs) == EmitType(s, "add_tuple_type", TupleType(fs))
add_bag_type(s, e) == EmitType(s, "add_bag_type", BagType(e))
add_union_type(s, vs) == EmitType(s, "add_union_type", UnionType(vs))

(***************************************************************************)
(* 4.2 Layout modeler.                                                     *)
(***************************************************************************)
str_type(s) ==
    LET with_cell(s1) == add_tuple_type(s1, <<s1.t>>)
    IN  with_cell(add_heap_cell_type(s))

\* A worst-case type that pairs the heap cell with a bag.
worst_case_type_pair(s) ==
    LET with_bag(s2, cell) == add_tuple_type(s2, <<cell, s2.t>>)
        with_cell(s1) == with_bag(add_bag_type(s1, TupleType(<<>>)), s1.t)
    IN  with_cell(add_heap_cell_type(s))

\* let cell = builder.add_heap_cell_type(); builder.add_bag_type(cell)
worst_case_type(s) ==
    LET with_cell(s1) == add_bag_type(s1, s1.t)
    IN  with_cell(add_heap_cell_type(s))

\* for field in layouts.iter() { field_types.push(layout_spec(builder, field)?) }
build_tuple_type_loop(s, layouts, i, field_types) ==
    IF s.status # "ok" THEN s
    ELSE IF i > Len(layouts) THEN [s EXCEPT !.ts = field_types]
    ELSE LET push(s1) ==
                 build_tuple_type_loop(s1, layouts, i + 1, Append(field_types, s1.t))
         IN  push(layout_spec(s, layouts[i]))

build_tuple_type(s, layouts) ==
    LET with_field_types(s1) == add_tuple_type(s1, s1.ts)
    IN  with_field_types(build_tuple_type_loop(s, layouts, 1, <<>>))

build_variant_types_loop(s, tags, i, result) ==
    IF s.status # "ok" THEN s
    ELSE IF i > Len(tags) THEN [s EXCEPT !.ts = result]
    ELSE LET push(s1) ==
                 build_variant_types_loop(s1, tags, i + 1, Append(result, s1.t))
         IN  push(build_tuple_type(s, tags[i]))

\* Only NonRecursive is lowered; every other shape is unreachable!().
build_variant_types(s, union_layout) ==
    IF s.status # "ok" THEN s
    ELSE IF union_layout.u = "NonRecursive"
         THEN build_variant_types_loop(s, union_layout.tags, 1, <<>>)
         ELSE [s EXCEPT !.status = "panic"]

\* let cell = add_heap_cell_type(); let bag = add_bag_type(element_type)?;
\* add_tuple_type(&[cell, bag])
cell_and_bag(s, element_type) ==
    LET with_bag(s2, cell) == add_tuple_type(s2, <<cell, s2.t>>)
        with_cell(s1) == with_bag(add_bag_type(s1, element_type), s1.t)
    IN  with_cell(add_heap_cell_type(s))

builtin_spec(s, builtin) ==
    IF s.status # "ok" THEN s
    ELSE IF builtin.b \in {"Int128", "Int64", "Int32", "Int16", "Int8", "Int1", "Usize",
                           "Decimal", "Float128", "Float64", "Float32", "Float16"}
         THEN add_tuple_type(s, <<>>)
    ELSE IF builtin.b \in {"Str", "EmptyStr"} THEN str_type(s)
    ELSE IF builtin.b = "Dict"
         THEN \* value_type, then key_type, then the (key, value) element type
              LET with_element(s3) == cell_and_bag(s3, s3.t)
                  with_key(s2, value_type) ==
                      with_element(add_tuple_type(s2, <<s2.t, value_type>>))
                  with_value(s1) == with_key(layout_spec(s1, builtin.key), s1.t)
              IN  with_value(layout_spec(s, builtin.value))
    ELSE IF builtin.b = "Set"
         THEN \* value_type is the unit tuple
              LET with_element(s3) == cell_and_bag(s3, s3.t)
                  with_key(s2, value_type) ==
                      with_element(add_tuple_type(s2, <<s2.t, value_type>>))
                  with_value(s1) == with_key(layout_spec(s1, builtin.key), s1.t)
              IN  with_value(add_tuple_type(s, <<>>))
    ELSE IF builtin.b = "List"
         THEN LET with_element(s1) == cell_and_bag(s1, s1.t)
              IN  with_element(layout_spec(s, builtin.elem))
    ELSE IF builtin.b = "EmptyList"
         THEN \* TODO make sure that we consistently treat the element type
              LET with_element(s1) == cell_and_bag(s1, s1.t)
              IN  with_element(add_tuple_type(s, <<>>))
    ELSE \* EmptyDict | EmptySet: unit, then the (unit, unit) element type
         LET with_element(s2) == cell_and_bag(s2, s2.t)
             with_unit(s1) == with_element(add_tuple_type(s1, <<s1.t, s1.t>>))
         IN  with_unit(add_tuple_type(s, <<>>))

\* A lowering that descends into the fields of a NullableUnwrapped union.
layout_spec_descend(s, layout) ==
    IF s.status # "ok" THEN s
    ELSE IF layout.tag = "Builtin" THEN builtin_spec(s, layout.builtin)
    ELSE IF layout.tag = "Struct" THEN build_tuple_type(s, layout.fields)
    ELSE IF layout.tag = "Union"
         THEN IF layout.union.u = "NonRecursive"
              THEN LET with_variant_types(s1) == add_union_type(s1, s1.ts)
                   IN  with_variant_types(build_variant_types(s, layout.union))
              ELSE IF layout.union.u = "NullableUnwrapped"
              THEN build_tuple_type(s, layout.union.other_fields)
              ELSE worst_case_type(s)
    ELSE IF layout.tag = "RecursivePointer" THEN worst_case_type(s)
    ELSE layout_spec(s, runtime_representation(layout.lambda_set))

layout_spec(s, layout) ==
    IF s.status # "ok" THEN s
    ELSE IF layout.tag = "Builtin" THEN builtin_spec(s, layout.builtin)
    ELSE IF layout.tag = "Struct" THEN build_tuple_type(s, layout.fields)
    ELSE IF layout.tag = "Union"
         THEN IF layout.union.u = "NonRecursive"
              THEN LET with_variant_types(s1) == add_union_type(s1, s1.ts)
                   IN  with_variant_types(build_variant_types(s, layout.union))
              ELSE worst_case_type(s)
    ELSE IF layout.tag = "RecursivePointer" THEN worst_case_type(s)
    ELSE \* Closure(_, lambda_set, _)
         layout_spec(s, runtime_representation(layout.lambda_set))

(***************************************************************************)
(* Value-level builder operations.  ins: the ValueIds read; aux: the other *)
(* numeric operands (field index, tag id, call-site or update-mode token,  *)
(* block expressions as block, value pairs).                               *)
(***************************************************************************)
FnType(arg, ret) == [t |-> "fn", arg |-> arg, ret |-> ret]

add_new_heap_cell(s, block) == Emit(s, "add_new_heap_cell", block, <<>>, NoType, NoName, <<>>)
add_empty_bag(s, block, ty) == Emit(s, "add_empty_bag", block, <<>>, ty, NoName, <<>>)
add_bag_insert(s, block, bag, x) == Emit(s, "add_bag_insert", block, <<bag, x>>, NoType, NoName, <<>>)
add_bag_get(s, block, bag) == Emit(s, "add_bag_get", block, <<bag>>, NoType, NoName, <<>>)
add_make_tuple(s, block, ids) == Emit(s, "add_make_tuple", block, ids, NoType, NoName, <<>>)
add_get_tuple_field(s, block, x, i) ==
    Emit(s, "add_get_tuple_field", block, <<x>>, NoType, NoName, <<i>>)
add_make_union(s, block, variant_types, tag_id, x) ==
    Emit(s, "add_make_union", block, <<x>>, UnionType(variant_types), NoName, <<tag_id>>)
add_unwrap_union(s, block, x, tag_id) ==
    Emit(s, "add_unwrap_union", block, <<x>>, NoType, NoName, <<tag_id>>)
add_unknown_with(s, block, ins, ty) == Emit(s, "add_unknown_with", block, ins, ty, NoName, <<>>)
add_touch(s, block, cell) == Emit(s, "add_touch", block, <<cell>>, NoType, NoName, <<>>)
add_recursive_touch(s, block, x) ==
    Emit(s, "add_recursive_touch", block, <<x>>, NoType, NoName, <<>>)
add_update(s, block, update_mode_var, cell) ==
    Emit(s, "add_update", block, <<cell>>, NoType, NoName, <<update_mode_var>>)
add_terminate(s, block, ty) == Emit(s, "add_terminate", block, <<>>, ty, NoName, <<>>)
add_const_ref(s, block, module, name) == Emit(s, "add_const_ref", block, <<>>, NoType, name, <<>>)
add_call(s, block, spec_var, module, name, arg) ==
    Emit(s, "add_call", block, <<arg>>, NoType, name, <<spec_var>>)
\* cases: a sequence of BlockExpr, each <<block, value>>
add_choice(s, block, cases) ==
    Emit(s, "add_choice", block, <<>>, NoType, NoName,
         [i \in 1..(2 * Len(cases)) |-> cases[(i + 1) \div 2][2 - (i % 2)]])
add_sub_block(s, block, block_expr) ==
    Emit(s, "add_sub_block", block, <<>>, NoType, NoName, block_expr)
add_jump(s, block, jpid, arg, ret_type) ==
    Emit(s, "add_jump", block, <<arg>>, ret_type, NoName, <<jpid>>)
\* returns (ContinuationId, ValueId): the continuation id is left in s.nc - 1
declare_continuation(s, block, arg_type, ret_type) ==
    IF s.status # "ok" THEN s
    ELSE IF s.calls + 1 = s.fail_at THEN Emit(s, "declare_continuation", block, <<>>,
                                              FnType(arg_type, ret_type), NoName, <<s.nc>>)
    ELSE [Emit(s, "declare_continuation", block, <<>>, FnType(arg_type, ret_type),
               NoName, <<s.nc>>) EXCEPT !.nc = @ + 1]
define_continuation(s, jpid, block_expr) ==
    Call(s, "define_continuation", 0, <<>>, NoType, NoName, <<jpid>> \o block_expr)

(***************************************************************************)
(* Env: symbols and join_points are maps.                                  *)
(***************************************************************************)
MapInsert(m, k, x) == [y \in (DOMAIN m) \cup {k} |-> IF y = k THEN x ELSE m[y]]
MapRemove(m, k) == [y \in (DOMAIN m) \ {k} |-> m[y]]

symbols_insert(s, symbol, value_id) ==
    IF s.status # "ok" THEN s
    ELSE [s EXCEPT !.env.symbols = MapInsert(@, symbol, value_id)]

symbols_remove(s, symbol) ==
    IF s.status # "ok" THEN s
    ELSE [s EXCEPT !.env.symbols = MapRemove(@, symbol)]

\* A join id that is never put in scope.
join_points_insert_nothing(s, id, jpid) == s

join_points_insert(s, id, jpid) ==
    IF s.status # "ok" THEN s
    ELSE [s EXCEPT !.env.join_points = MapInsert(@, id, jpid)]

join_points_remove(s, id) ==
    IF s.status # "ok" THEN s
    ELSE [s EXCEPT !.env.join_points = MapRemove(@, id)]

\* A fault that is handed back as an error value.
Panic_as_error(s) == IF s.status # "ok" THEN s ELSE [s EXCEPT !.status = "err"]

\* An abrupt fault: indexing a map with an absent key, indexing a slice out
\* of bounds, unreachable!(), unwrap() of None.
Panic(s) == IF s.status # "ok" THEN s ELSE [s EXCEPT !.status = "panic"]

\* Ok(value_id): the call returns a ValueId that no builder call produced.
Return(s, value_id) == IF s.status # "ok" THEN s ELSE [s EXCEPT !.v = value_id]

\* env.symbols[symbol] does not panic for these symbols
Bound(s, symbols) == \A i \in DOMAIN symbols : symbols[i] \in DOMAIN s.env.symbols

\* env.symbols[&arguments[i]] does not panic for the slots i (counted from 0)
IndexOk(s, arguments, slots) ==
    \A i \in slots : i < Len(arguments) /\ arguments[i + 1] \in DOMAIN s.env.symbols

\* env.symbols[&arguments[i]], i counted from 0
Arg(s, arguments, i) == s.env.symbols[arguments[i + 1]]

\* symbols.iter().map(|symbol| env.symbols[symbol]).collect()
ValueIds(s, symbols) == [i \in DOMAIN symbols |-> s.env.symbols[symbols[i]]]

build_tuple_value(s, block, symbols) ==
    IF s.status # "ok" THEN s
    ELSE IF ~Bound(s, symbols) THEN Panic(s)
    ELSE add_make_tuple(s, block, ValueIds(s, symbols))

LIST_CELL_INDEX == 0
LIST_BAG_INDEX == 1
DICT_CELL_INDEX == LIST_CELL_INDEX
DICT_BAG_INDEX == LIST_BAG_INDEX

new_list(s, block, element_type) ==
    LET with_bag(s2, cell) == add_make_tuple(s2, block, <<cell, s2.v>>)
        with_cell(s1) == with_bag(add_empty_bag(s1, block, element_type), s1.v)
    IN  with_cell(add_new_heap_cell(s, block))

new_dict(s, block, key_type, value_type) ==
    LET with_bag(s3, cell) == add_make_tuple(s3, block, <<cell, s3.v>>)
        with_element_type(s2, cell) == with_bag(add_empty_bag(s2, block, s2.t), cell)
        with_cell(s1) ==
            with_element_type(add_tuple_type(s1, <<key_type, value_type>>), s1.v)
    IN  with_cell(add_new_heap_cell(s, block))

new_static_string(s, block) == add_const_ref(s, block, MOD_APP, STATIC_STR_NAME)

new_num(s, block) == add_make_tuple(s, block, <<>>)

literal_spec(s, block, literal) ==
    IF literal = "Str" THEN new_static_string(s, block)
    ELSE add_make_tuple(s, block, <<>>)

(***************************************************************************)
(* 4.4 Call modeler: low-level operations.                                 *)
(***************************************************************************)
\* A numeric operation that cannot fail: just a new number.
num_may_panic_no_fail(s, block, type_id) == new_num(s, block)

\* NumAdd | NumSub: a sub-block choosing between a block that yields a new
\* number and a block that terminates.
num_may_panic(s, block, type_id) ==
    LET with_choice(b2, sub) == add_sub_block(b2, block, <<sub, b2.v>>)
        with_sub_block(b1, pass_block, fail_block) ==
            with_choice(add_choice(b1, b1.v, <<pass_block, fail_block>>), b1.v)
        with_fail_value(f2, pass_block, fail) ==
            with_sub_block(add_block(f2), pass_block, <<fail, f2.v>>)
        with_fail_block(f1, pass_block) ==
            with_fail_value(add_terminate(f1, f1.v, type_id), pass_block, f1.v)
        with_pass_value(p2, pass) == with_fail_block(add_block(p2), <<pass, p2.v>>)
        with_pass_block(p1) == with_pass_value(new_num(p1, p1.v), p1.v)
    IN  with_pass_block(add_block(s))

\* ListGetUnsafe and DictGetUnsafe after their lookups: bag, cell, touch, get
bag_get(s, block, collection) ==
    LET with_cell(s2, bag) == add_bag_get(add_touch(s2, block, s2.v), block, bag)
        with_bag(s1) ==
            with_cell(add_get_tuple_field(s1, block, collection, LIST_CELL_INDEX), s1.v)
    IN  with_bag(add_get_tuple_field(s, block, collection, LIST_BAG_INDEX))

\* A write whose value is the value of the insertion.
bag_insert_as_value(s, block, update_mode_var, collection, to_insert) ==
    LET with_cell(s2, bag) ==
            add_bag_insert(add_update(s2, block, update_mode_var, s2.v),
                           block, bag, to_insert)
        with_bag(s1) ==
            with_cell(add_get_tuple_field(s1, block, collection, LIST_CELL_INDEX), s1.v)
    IN  with_bag(add_get_tuple_field(s, block, collection, LIST_BAG_INDEX))

\* ListSet, ListAppend and DictInsert after their lookups: bag, cell, update,
\* insert, Ok(collection)
bag_insert(s, block, update_mode_var, collection, to_insert) ==
    LET with_cell(s2, bag) ==
            add_bag_insert(add_update(s2, block, update_mode_var, s2.v),
                           block, bag, to_insert)
        with_bag(s1) ==
            with_cell(add_get_tuple_field(s1, block, collection, LIST_CELL_INDEX), s1.v)
    IN  Return(with_bag(add_get_tuple_field(s, block, collection, LIST_BAG_INDEX)),
               collection)

\* the match on op, entered with type_id = s.t
lowlevel_match(s, block, layout, op, update_mode_var, arguments) ==
    IF s.status # "ok" THEN s
    ELSE IF op \in {"NumAdd", "NumSub"} THEN num_may_panic(s, block, s.t)
    ELSE IF op \in {"NumToFloat", "Eq", "NotEq", "NumLte", "NumLt", "NumGt", "NumGte",
                    "NumCompare", "ListLen", "DictSize"}
         THEN add_make_tuple(s, block, <<>>)
    ELSE IF op = "ListGetUnsafe"
         THEN IF ~IndexOk(s, arguments, {0}) THEN Panic(s)
              ELSE bag_get(s, block, Arg(s, arguments, 0))
    ELSE IF op = "ListSet"
         THEN IF ~IndexOk(s, arguments, {0, 2}) THEN Panic(s)
              ELSE bag_insert(s, block, update_mode_var,
                              Arg(s, arguments, 0), Arg(s, arguments, 2))
    ELSE IF op = "ListAppend"
         THEN IF ~IndexOk(s, arguments, {0, 1}) THEN Panic(s)
              ELSE bag_insert(s, block, update_mode_var,
                              Arg(s, arguments, 0), Arg(s, arguments, 1))
    ELSE IF op = "DictEmpty"
         THEN IF layout.tag = "Builtin" /\ layout.builtin.b = "EmptyDict"
              THEN LET with_type_id(s1) == new_dict(s1, block, s1.t, s1.t)
                   IN  with_type_id(add_tuple_type(s, <<>>))
              ELSE IF layout.tag = "Builtin" /\ layout.builtin.b = "Dict"
              THEN LET with_value_id(s2, key_id) == new_dict(s2, block, key_id, s2.t)
                       with_key_id(s1) ==
                           with_value_id(layout_spec(s1, layout.builtin.value), s1.t)
                   IN  with_key_id(layout_spec(s, layout.builtin.key))
              ELSE Panic(s)
    ELSE IF op = "DictGetUnsafe"
         THEN IF ~IndexOk(s, arguments, {0, 1}) THEN Panic(s)
              ELSE bag_get(add_recursive_touch(s, block, Arg(s, arguments, 1)),
                           block, Arg(s, arguments, 0))
    ELSE IF op = "DictInsert"
         THEN IF ~IndexOk(s, arguments, {0, 1, 2}) THEN Panic(s)
              ELSE LET with_key_value(s1) ==
                           bag_insert(s1, block, update_mode_var,
                                      Arg(s, arguments, 0), s1.v)
                   IN  with_key_value(add_make_tuple(s, block,
                           <<Arg(s, arguments, 1), Arg(s, arguments, 2)>>))
    ELSE \* any other op
         IF ~Bound(s, arguments) THEN Panic(s)
         ELSE LET with_result_type(s1) ==
                      add_unknown_with(s1, block, ValueIds(s, arguments), s1.t)
              IN  with_result_type(layout_spec(s, layout))

lowlevel_spec(s, block, layout, op, update_mode, arguments) ==
    lowlevel_match(layout_spec(s, layout), block, layout, op, update_mode, arguments)

(***************************************************************************)
(* 4.4 Call modeler: higher-order low-level operations.                    *)
(***************************************************************************)
HigherOrderOps ==
    {"ListMap", "ListMapWithIndex", "ListMap2", "ListMap3", "ListWalk", "ListWalkUntil",
     "ListWalkBackwards", "DictWalk", "ListKeepIf", "ListKeepOks", "ListKeepErrs",
     "ListSortWith"}

\* The slot of call.arguments (counted from 0) that names the callback.
callback_slot(op) ==
    IF op \in {"ListMap", "ListMapWithIndex"} THEN 1
    ELSE IF op = "ListMap2" THEN 2
    ELSE IF op = "ListMap3" THEN 3
    ELSE IF op \in {"ListWalk", "ListWalkUntil", "ListWalkBackwards", "DictWalk"} THEN 2
    ELSE IF op \in {"ListKeepIf", "ListKeepOks", "ListKeepErrs"} THEN 1
    ELSE 1  \* ListSortWith

\* let bag = add_get_tuple_field(block, list, LIST_BAG_INDEX)?;
\* let _cell = add_get_tuple_field(block, list, LIST_CELL_INDEX)?;
\* let first = add_bag_get(block, bag)?;
first_element(s, block, list) ==
    LET with_cell(s2, bag) == add_bag_get(s2, block, bag)
        with_bag(s1) ==
            with_cell(add_get_tuple_field(s1, block, list, LIST_CELL_INDEX), s1.v)
    IN  with_bag(add_get_tuple_field(s, block, list, LIST_BAG_INDEX))

\* A callback that is always handed the closure environment.
call_callback_always_env(s, block, spec_var, name, closure_env_layout, xs, closure_env) ==
    LET with_argument(s1) == add_call(s1, block, spec_var, MOD_APP, name, s1.v)
    IN  with_argument(add_make_tuple(s, block, Append(xs, closure_env)))

\* let argument = if closure_env_layout.is_none() { add_make_tuple(block, xs)? }
\*                else { add_make_tuple(block, xs ++ [closure_env])? };
\* add_call(block, spec_var, module, name, argument)?
\* (closure_env_layout: <<>> for None, <<layout>> for Some(layout))
call_callback(s, block, spec_var, name, closure_env_layout, xs, closure_env) ==
    LET with_argument(s1) == add_call(s1, block, spec_var, MOD_APP, name, s1.v)
    IN  with_argument(add_make_tuple(s, block,
            IF Len(closure_env_layout) = 0 THEN xs ELSE Append(xs, closure_env)))

\* The match on op that draws the elements and calls the callback.
higher_order_call(s, block, op, closure_env_layout, spec_var, name, arguments) ==
    IF s.status # "ok" THEN s
    ELSE IF op = "DictWalk"
         THEN IF ~IndexOk(s, arguments, {0, 1, 3}) THEN Panic(s)
              ELSE LET with_val(s3, key) ==
                           call_callback(s3, block, spec_var, name, closure_env_layout,
                                         <<key, s3.v, Arg(s, arguments, 1)>>,
                                         Arg(s, arguments, 3))
                       with_key(s2, first) ==
                           with_val(add_get_tuple_field(s2, block, first, 1), s2.v)
                       with_first(s1) ==
                           with_key(add_get_tuple_field(s1, block, s1.v, 0), s1.v)
                   IN  with_first(first_element(s, block, Arg(s, arguments, 0)))
    ELSE IF op \in {"ListWalk", "ListWalkBackwards", "ListWalkUntil"}
         THEN IF ~IndexOk(s, arguments, {0, 1, 3}) THEN Panic(s)
              ELSE LET with_first(s1) ==
                           call_callback(s1, block, spec_var, name, closure_env_layout,
                                         <<s1.v, Arg(s, arguments, 1)>>,
                                         Arg(s, arguments, 3))
                   IN  with_first(first_element(s, block, Arg(s, arguments, 0)))
    ELSE IF op = "ListMapWithIndex"
         THEN IF ~IndexOk(s, arguments, {0, 2}) THEN Panic(s)
              ELSE LET with_index(s2, first) ==
                           call_callback(s2, block, spec_var, name, closure_env_layout,
                                         <<first, s2.v>>, Arg(s, arguments, 2))
                       with_first(s1) == with_index(add_make_tuple(s1, block, <<>>), s1.v)
                   IN  with_first(first_element(s, block, Arg(s, arguments, 0)))
    ELSE IF op = "ListMap"
         THEN IF ~IndexOk(s, arguments, {0, 2}) THEN Panic(s)
              ELSE LET with_elem1(s1) ==
                           call_callback(s1, block, spec_var, name, closure_env_layout,
                                         <<s1.v>>, Arg(s, arguments, 2))
                   IN  with_elem1(first_element(s, block, Arg(s, arguments, 0)))
    ELSE IF op = "ListSortWith"
         THEN IF ~IndexOk(s, arguments, {0, 2}) THEN Panic(s)
              ELSE LET with_elem1(s1) ==
                           call_callback(s1, block, spec_var, name, closure_env_layout,
                                         <<s1.v, s1.v>>, Arg(s, arguments, 2))
                   IN  with_elem1(first_element(s, block, Arg(s, arguments, 0)))
    ELSE IF op = "ListMap2"
         THEN IF ~IndexOk(s, arguments, {0, 1, 3}) THEN Panic(s)
              ELSE LET with_elem2(s2, elem1) ==
                           call_callback(s2, block, spec_var, name, closure_env_layout,
                                         <<elem1, s2.v>>, Arg(s, arguments, 3))
                       with_elem1(s1) ==
                           with_elem2(first_element(s1, block, Arg(s, arguments, 1)), s1.v)
                   IN  with_elem1(first_element(s, block, Arg(s, arguments, 0)))
    ELSE IF op = "ListMap3"
         THEN IF ~IndexOk(s, arguments, {0, 1, 2, 4}) THEN Panic(s)
              ELSE LET with_elem3(s3, elem1, elem2) ==
                           call_callback(s3, block, spec_var, name, closure_env_layout,
                                         <<elem1, elem2, s3.v>>, Arg(s, arguments, 4))
                       with_elem2(s2, elem1) ==
                           with_elem3(first_element(s2, block, Arg(s, arguments, 2)),
                                      elem1, s2.v)
                       with_elem1(s1) ==
                           with_elem2(first_element(s1, block, Arg(s, arguments, 1)), s1.v)
                   IN  with_elem1(first_element(s, block, Arg(s, arguments, 0)))
    ELSE IF op \in {"ListKeepIf", "ListKeepOks", "ListKeepErrs"}
         THEN IF ~IndexOk(s, arguments, {0, 2}) THEN Panic(s)
              ELSE LET with_unit(s4, result) ==
                           add_unknown_with(s4, block, <<result>>, s4.t)
                       with_result(s3) == with_unit(add_tuple_type(s3, <<>>), s3.v)
                       with_first(s2) ==
                           with_result(call_callback(s2, block, spec_var, name,
                                                     closure_env_layout, <<s2.v>>,
                                                     Arg(s, arguments, 2)))
                       with_bag(s1) == with_first(add_bag_get(s1, block, s1.v))
                   IN  with_bag(add_get_tuple_field(s, block, Arg(s, arguments, 0),
                                                    LIST_BAG_INDEX))
    ELSE \* any other op: fake a call to the function argument
         LET with_arg_value_id(s1) == add_call(s1, block, spec_var, MOD_APP, name, s1.v)
         IN  with_arg_value_id(build_tuple_value(s, block, <<>>))

\* call.arguments.iter().filter_map(|symbol| env.symbols.get(symbol)).copied().collect()
RECURSIVE bound_arguments(_, _)
bound_arguments(symbols, arguments) ==
    IF arguments = <<>> THEN <<>>
    ELSE (IF Head(arguments) \in DOMAIN symbols
          THEN <<symbols[Head(arguments)]>> ELSE <<>>)
         \o bound_arguments(symbols, Tail(arguments))

call_spec(s, block, layout, call) ==
    IF s.status # "ok" THEN s
    ELSE IF call.call_type = "ByName"
         THEN LET with_arg_value_id(s1) ==
                      add_call(s1, block, call.specialization_id, MOD_APP,
                               func_name_bytes_help(call.name, call.arg_layouts,
                                                    call.ret_layout),
                               s1.v)
              IN  with_arg_value_id(build_tuple_value(s, block, call.arguments))
    ELSE IF call.call_type = "Foreign"
         THEN IF ~Bound(s, call.arguments) THEN Panic(s)
              ELSE LET with_result_type(s1) ==
                           add_unknown_with(s1, block, ValueIds(s, call.arguments), s1.t)
                   IN  with_result_type(layout_spec(s, call.ret_layout))
    ELSE IF call.call_type = "LowLevel"
         THEN lowlevel_spec(s, block, layout, call.op, call.update_mode, call.arguments)
    ELSE \* HigherOrderLowLevel
         IF call.op \notin HigherOrderOps \/ callback_slot(call.op) + 1 > Len(call.arguments)
         THEN Panic(s)
         ELSE LET with_result_type(s2) ==
                      add_unknown_with(s2, block,
                                       bound_arguments(s.env.symbols, call.arguments), s2.t)
                  with_callback(s1) == with_result_type(layout_spec(s1, layout))
              IN  with_callback(
                      higher_order_call(s, block, call.op, call.closure_env_layout,
                          call.specialization_id,
                          func_name_bytes_help(call.arguments[callback_slot(call.op) + 1],
                                               call.arg_layouts, call.ret_layout),
                          call.arguments))

(***************************************************************************)
(* 4.3 Expression lowerer.                                                 *)
(***************************************************************************)
RECURSIVE array_insert_loop(_, _, _, _, _)
\* for symbol in elems.iter() { bag = add_bag_insert(block, bag, env.symbols[symbol])? }
array_insert_loop(s, block, elems, i, bag) ==
    IF s.status # "ok" THEN s
    ELSE IF i > Len(elems) THEN Return(s, bag)
    ELSE IF ~Bound(s, <<elems[i]>>) THEN Panic(s)
    ELSE LET with_bag(s1) == array_insert_loop(s1, block, elems, i + 1, s1.v)
         IN  with_bag(add_bag_insert(s, block, bag, s.env.symbols[elems[i]]))

expr_spec(s, block, layout, expr) ==
    IF s.status # "ok" THEN s
    ELSE IF expr.e = "Literal" THEN literal_spec(s, block, expr.literal)
    ELSE IF expr.e = "Call" THEN call_spec(s, block, layout, expr.call)
    ELSE IF expr.e \in {"Tag", "Reuse"}
         THEN IF expr.tag_layout.u = "NonRecursive"
              THEN LET with_variant_types(s2, value_id) ==
                           add_make_union(s2, block, s2.ts, expr.tag_id, value_id)
                       with_value_id(s1) ==
                           with_variant_types(build_variant_types(s1, expr.tag_layout), s1.v)
                   IN  with_value_id(build_tuple_value(s, block, expr.arguments))
              ELSE LET with_value_id(s2, result_type) ==
                           add_unknown_with(s2, block, <<s2.v>>, result_type)
                       with_result_type(s1) ==
                           with_value_id(build_tuple_value(s1, block, expr.arguments), s1.t)
                   IN  with_result_type(worst_case_type(s))
    ELSE IF expr.e = "Struct" THEN build_tuple_value(s, block, expr.arguments)
    ELSE IF expr.e = "UnionAtIndex"
         THEN IF ~Bound(s, <<expr.structure>>) THEN Panic(s)
              ELSE IF expr.union_layout.u = "NonRecursive"
              THEN LET with_tuple_value_id(s1) ==
                           add_get_tuple_field(s1, block, s1.v, expr.index)
                   IN  with_tuple_value_id(
                           add_unwrap_union(s, block, s.env.symbols[expr.structure],
                                            expr.tag_id))
              ELSE LET with_result_type(s1) ==
                           add_unknown_with(s1, block, <<s.env.symbols[expr.structure]>>,
                                            s1.t)
                   IN  with_result_type(layout_spec(s, layout))
    ELSE IF expr.e = "StructAtIndex"
         THEN IF ~Bound(s, <<expr.structure>>) THEN Panic(s)
              ELSE add_get_tuple_field(s, block, s.env.symbols[expr.structure], expr.index)
    ELSE IF expr.e = "Array"
         THEN LET with_cell(s5, bag) == add_make_tuple(s5, block, <<s5.v, bag>>)
                  with_bag(s4) == with_cell(add_new_heap_cell(s4, block), s4.v)
                  with_first_bag(s3) ==
                      with_bag(array_insert_loop(s3, block, expr.elems, 1, s3.v))
                  with_list(s2) ==
                      with_first_bag(add_get_tuple_field(s2, block, s2.v, LIST_BAG_INDEX))
                  with_type_id(s1) == with_list(new_list(s1, block, s1.t))
              IN  with_type_id(layout_spec(s, expr.elem_layout))
    ELSE IF expr.e = "EmptyArray"
         THEN IF layout.tag = "Builtin" /\ layout.builtin.b = "EmptyList"
              THEN LET with_type_id(s1) == new_list(s1, block, s1.t)
                   IN  with_type_id(add_tuple_type(s, <<>>))
              ELSE IF layout.tag = "Builtin" /\ layout.builtin.b = "List"
              THEN LET with_type_id(s1) == new_list(s1, block, s1.t)
                   IN  with_type_id(layout_spec(s, layout.builtin.elem))
              ELSE Panic(s)
    ELSE IF expr.e = "Reset"
         THEN LET with_type_id(s1) ==
                      IF ~Bound(s, <<expr.symbol>>) THEN Panic(s1)
                      ELSE add_unknown_with(s1, block, <<s.env.symbols[expr.symbol]>>, s1.t)
              IN  with_type_id(layout_spec(s, layout))
    ELSE IF expr.e = "RuntimeErrorFunction"
         THEN LET with_type_id(s1) == add_terminate(s1, block, s1.t)
              IN  with_type_id(layout_spec(s, layout))
    ELSE \* GetTagId
         add_make_tuple(s, block, <<>>)

(***************************************************************************)
(* 4.5 Statement lowerer.  Ghost: every call of stmt_spec appends an       *)
(* "enter" event, and an "exit" event when it returns Ok.                  *)
(***************************************************************************)
Event(ev, kind, role, depth, block, env_in, env, bound, id, v) ==
    [ev |-> ev, kind |-> kind, role |-> role, depth |-> depth, block |-> block,
     env_in |-> env_in, env |-> env, bound |-> bound, id |-> id, v |-> v]

Enter(s, stmt, role, block) ==
    IF s.status # "ok" THEN s
    ELSE [s EXCEPT !.depth = @ + 1,
                   !.trace = Append(@, Event("enter", stmt.stmt, role, s.depth + 1, block,
                                             s.env, s.env, <<>>, "", 0))]

Exit(s, stmt, role, block, env_in, bound, id) ==
    IF s.status # "ok" THEN s
    ELSE [s EXCEPT !.depth = @ - 1,
                   !.trace = Append(@, Event("exit", stmt.stmt, role, s.depth, block,
                                             env_in, s.env, bound, id, s.v))]

RECURSIVE LetQueue(_)
\* queue: the symbols of the maximal run of Let statements starting at stmt
LetQueue(stmt) ==
    IF stmt.stmt = "Let" THEN <<stmt.symbol>> \o LetQueue(stmt.continuation) ELSE <<>>

RECURSIVE LetTail(_)
\* continuation after the while-let loop: the first statement that is no Let
LetTail(stmt) == IF stmt.stmt = "Let" THEN LetTail(stmt.continuation) ELSE stmt

RECURSIVE let_loop(_, _, _)
\* expr_spec and env.symbols.insert for every Let of the chain
let_loop(s, block, stmt) ==
    IF s.status # "ok" \/ stmt.stmt # "Let" THEN s
    ELSE LET with_value_id(s1) ==
                 let_loop(symbols_insert(s1, stmt.symbol, s1.v), block, stmt.continuation)
         IN  with_value_id(expr_spec(s, block, stmt.layout, stmt.expr))

RECURSIVE remove_loop(_, _)
\* for symbol in queue { env.symbols.remove(symbol) }
remove_loop(s, queue) ==
    IF queue = <<>> THEN s
    ELSE remove_loop(symbols_remove(s, Head(queue)), Tail(queue))

RECURSIVE layouts_loop(_, _, _, _)
\* for p in parameters.iter() { type_ids.push(layout_spec(builder, &p.layout)?) }
layouts_loop(s, parameters, i, type_ids) ==
    IF s.status # "ok" THEN s
    ELSE IF i > Len(parameters) THEN [s EXCEPT !.ts = type_ids]
    ELSE LET push(s1) == layouts_loop(s1, parameters, i + 1, Append(type_ids, s1.t))
         IN  push(layout_spec(s, parameters[i].layout))

RECURSIVE unpack_loop(_, _, _, _, _)
\* for (i, p) in parameters: add_get_tuple_field(jp_body_block, jp_argument, i),
\* env.symbols.insert(p.symbol, value_id)
unpack_loop(s, jp_body_block, jp_argument, parameters, i) ==
    IF s.status # "ok" \/ i > Len(parameters) THEN s
    ELSE LET with_value_id(s1) ==
                 unpack_loop(symbols_insert(s1, parameters[i].symbol, s1.v),
                             jp_body_block, jp_argument, parameters, i + 1)
         IN  with_value_id(add_get_tuple_field(s, jp_body_block, jp_argument, i - 1))

RECURSIVE stmt_spec(_, _, _, _, _)
RECURSIVE switch_loop(_, _, _, _, _)

\* for branch in it { block = add_block(); value_id = stmt_spec(..)?; cases.push(..) }
switch_loop(s, layout, branches, i, cases) ==
    IF s.status # "ok" THEN s
    ELSE IF i > Len(branches) THEN [s EXCEPT !.ts = cases]
    ELSE LET with_value_id(s2, branch_block) ==
                 switch_loop(s2, layout, branches, i + 1,
                             Append(cases, <<branch_block, s2.v>>))
             with_block(s1) ==
                 with_value_id(stmt_spec(s1, s1.v, layout, branches[i], "branch"), s1.v)
         IN  with_block(add_block(s))

stmt_body(s, block, layout, stmt) ==
    IF stmt.stmt = "Let"
    THEN \* the bindings, the continuation, the removals; Ok(result)
         remove_loop(stmt_spec(let_loop(s, block, stmt), block, layout, LetTail(stmt),
                               "continuation"),
                     LetQueue(stmt))
    ELSE IF stmt.stmt = "Invoke"
    THEN LET with_fail_value(s5, pass_block_expr, fail_block) ==
                 add_choice(s5, block, <<pass_block_expr, <<fail_block, s5.v>> >>)
             with_fail_block(s4, pass_block_expr) ==
                 with_fail_value(stmt_spec(s4, s4.v, layout, stmt.fail, "fail"),
                                 pass_block_expr, s4.v)
             with_pass_value(s3, pass_block) ==
                 with_fail_block(add_block(symbols_remove(s3, stmt.symbol)),
                                 <<pass_block, s3.v>>)
             with_pass_block(s2, value_id) ==
                 with_pass_value(stmt_spec(symbols_insert(s2, stmt.symbol, value_id),
                                           s2.v, layout, stmt.pass, "pass"),
                                 s2.v)
             with_value_id(s1) == with_pass_block(add_block(s1), s1.v)
         IN  with_value_id(call_spec(s, block, stmt.layout, stmt.call))
    ELSE IF stmt.stmt = "Switch"
    THEN LET with_cases(s1) == add_choice(s1, block, s1.ts)
         IN  with_cases(switch_loop(s, layout,
                                    Append(stmt.branches, stmt.default_branch), 1, <<>>))
    ELSE IF stmt.stmt = "Ret"
    THEN IF ~Bound(s, <<stmt.symbol>>) THEN Panic(s)
         ELSE Return(s, s.env.symbols[stmt.symbol])
    ELSE IF stmt.stmt = "Refcounting"
    THEN \* Inc, Dec and DecRef are lowered alike
         IF ~Bound(s, <<stmt.symbol>>) THEN Panic(s)
         ELSE stmt_spec(add_recursive_touch(s, block, s.env.symbols[stmt.symbol]),
                        block, layout, stmt.continuation, "continuation")
    ELSE IF stmt.stmt = "Join"
    THEN LET with_body_value(s7, jpid, cont_block_expr, jp_body_block) ==
                 add_sub_block(
                     define_continuation(join_points_remove(s7, stmt.id), jpid,
                                         <<jp_body_block, s7.v>>),
                     block, cont_block_expr)
             with_body_block(s6, jpid, jp_argument, cont_block_expr) ==
                 with_body_value(
                     stmt_spec(unpack_loop(s6, s6.v, jp_argument, stmt.parameters, 1),
                               s6.v, layout, stmt.body, "body"),
                     jpid, cont_block_expr, s6.v)
             with_cont_value(s5, jpid, jp_argument, cont_block) ==
                 with_body_block(add_block(s5), jpid, jp_argument, <<cont_block, s5.v>>)
             with_cont_block(s4, jpid, jp_argument) ==
                 with_cont_value(stmt_spec(s4, s4.v, layout, stmt.remainder, "remainder"),
                                 jpid, jp_argument, s4.v)
             with_continuation(d) ==
                 with_cont_block(add_block(join_points_insert(d, stmt.id, d.nc - 1)),
                                 d.nc - 1, d.v)
             with_jp_arg_type(s3, ret_type_id) ==
                 with_continuation(declare_continuation(s3, block, s3.t, ret_type_id))
             with_ret_type(s2, type_ids) ==
                 with_jp_arg_type(add_tuple_type(s2, type_ids), s2.t)
             with_type_ids(s1) == with_ret_type(layout_spec(s1, layout), s1.ts)
         IN  with_type_ids(layouts_loop(s, stmt.parameters, 1, <<>>))
    ELSE IF stmt.stmt = "Jump"
    THEN LET with_argument(s2, ret_type_id) ==
                 IF stmt.id \notin DOMAIN s.env.join_points THEN Panic(s2)
                 ELSE add_jump(s2, block, s.env.join_points[stmt.id], s2.v, ret_type_id)
             with_ret_type(s1) ==
                 with_argument(build_tuple_value(s1, block, stmt.symbols), s1.t)
         IN  with_ret_type(layout_spec(s, layout))
    ELSE \* Resume(_) | RuntimeError(_)
         LET with_type_id(s1) == add_terminate(s1, block, s1.t)
         IN  with_type_id(layout_spec(s, layout))

stmt_spec(s, block, layout, stmt, role) ==
    IF s.status # "ok" THEN s
    ELSE Exit(stmt_body(Enter(s, stmt, role, block), block, layout, stmt),
              stmt, role, block, s.env,
              IF stmt.stmt = "Let" THEN LetQueue(stmt)
              ELSE IF stmt.stmt = "Join"
                   THEN [i \in 1..Len(stmt.parameters) |-> stmt.parameters[i].symbol]
              ELSE IF stmt.stmt = "Invoke" THEN <<stmt.symbol>>
              ELSE <<>>,
              IF stmt.stmt \in {"Join", "Jump"} THEN stmt.id ELSE "")

(***************************************************************************)
(* 4.6 Program assembler: the definitions spec_program builds.             *)
(***************************************************************************)
\* builder.get_argument(): the ValueId of the function's argument
ARGUMENT == 0

\* builder.build(arg_type_id, ret_type_id, root): the FuncDef (or ConstDef)
build(s, arg_type_id, ret_type_id, root) ==
    Call(s, "build", 0, <<>>, FnType(arg_type_id, ret_type_id), NoName, root)

\* The definition a finished builder holds: the operations before the final
\* build, and the types and root that build was given.
FuncDef(d) ==
    [arg_type |-> d.ops[Len(d.ops)].ty.arg, ret_type |-> d.ops[Len(d.ops)].ty.ret,
     root |-> d.ops[Len(d.ops)].aux, ops |-> SubSeq(d.ops, 1, Len(d.ops) - 1)]

\* a const that models all static strings
static_str_def(fail_at) ==
    LET with_str_type_id(s4, root) == build(s4, NoType, s4.t, root)
        with_value_id(s3, root_block) ==
            with_str_type_id(str_type(s3), <<root_block, s3.v>>)
        with_cell(s2, root_block) ==
            with_value_id(add_make_tuple(s2, root_block, <<s2.v>>), root_block)
        with_block(s1) == with_cell(add_new_heap_cell(s1, s1.v), s1.v)
    IN  with_block(add_block(NewBuilder(fail_at)))

build_entry_point(layout, func_name, fail_at) ==
    LET with_unit_value(s5, root_block, unit_type) ==
            build(s5, unit_type, unit_type, <<root_block, s5.v>>)
        with_unit_type(s4, root_block, result) ==
            with_unit_value(add_unknown_with(s4, root_block, <<result>>, s4.t),
                            root_block, s4.t)
        with_result(s3, root_block) ==
            with_unit_type(add_tuple_type(s3, <<>>), root_block, s3.v)
        \* let name_bytes = [0; 16]; CalleeSpecVar(&name_bytes)
        with_argument(s2, root_block) ==
            with_result(add_call(s2, root_block, 0, MOD_APP, func_name, s2.v), root_block)
        with_argument_type(s1, root_block) ==
            with_argument(add_unknown_with(s1, root_block, <<>>, s1.t), root_block)
        with_block(s0) == with_argument_type(build_tuple_type(s0, layout.arguments), s0.v)
    IN  with_block(add_block(NewBuilder(fail_at)))

RECURSIVE proc_args_loop(_, _, _, _)
\* introduce the arguments
proc_args_loop(s, block, args, i) ==
    IF s.status # "ok" \/ i > Len(args) THEN s
    ELSE LET with_value_id(s1) ==
                 proc_args_loop(symbols_insert(s1, args[i].symbol, s1.v),
                                block, args, i + 1)
         IN  with_value_id(add_get_tuple_field(s, block, ARGUMENT, i - 1))

proc_spec(proc, fail_at) ==
    LET with_ret_type_id(s4, root, arg_type_id) == build(s4, arg_type_id, s4.t, root)
        with_arg_type_id(s3, root) ==
            with_ret_type_id(layout_spec(s3, proc.ret_layout), root, s3.t)
        with_value_id(s2, root_block) ==
            with_arg_type_id(
                layout_spec(s2, Struct([i \in 1..Len(proc.args) |-> proc.args[i].layout])),
                <<root_block, s2.v>>)
        with_block(s1) ==
            with_value_id(stmt_spec(proc_args_loop(s1, s1.v, proc.args, 1), s1.v,
                                    proc.ret_layout, proc.body, "proc"),
                          s1.v)
    IN  with_block(add_block(NewBuilder(fail_at)))

\* m.add_const / m.add_func: one more fallible call on the module builder
add_to_module(s, what, name) == Call(s, what, 0, <<>>, NoType, name, <<>>)

(***************************************************************************)
(* The IR (crate::ir): statements, expressions, calls, procedures.         *)
(***************************************************************************)
Let(symbol, expr, layout, continuation) ==
    [stmt |-> "Let", symbol |-> symbol, expr |-> expr, layout |-> layout,
     continuation |-> continuation]
Invoke(symbol, call, layout, pass, fail) ==
    [stmt |-> "Invoke", symbol |-> symbol, call |-> call, layout |-> layout,
     pass |-> pass, fail |-> fail]
Switch(branches, default_branch) ==
    [stmt |-> "Switch", branches |-> branches, default_branch |-> default_branch]
Ret(symbol) == [stmt |-> "Ret", symbol |-> symbol]
Refcounting(modify_rc, symbol, continuation) ==
    [stmt |-> "Refcounting", modify_rc |-> modify_rc, symbol |-> symbol,
     continuation |-> continuation]
Join(id, parameters, body, remainder) ==
    [stmt |-> "Join", id |-> id, parameters |-> parameters, body |-> body,
     remainder |-> remainder]
Jump(id, symbols) == [stmt |-> "Jump", id |-> id, symbols |-> symbols]
RuntimeError == [stmt |-> "RuntimeError"]

Param(symbol, layout) == [symbol |-> symbol, layout |-> layout]

Literal(literal) == [e |-> "Literal", literal |-> literal]
CallExpr(call) == [e |-> "Call", call |-> call]
Array(elem_layout, elems) == [e |-> "Array", elem_layout |-> elem_layout, elems |-> elems]
StructExpr(arguments) == [e |-> "Struct", arguments |-> arguments]
Reset(symbol) == [e |-> "Reset", symbol |-> symbol]
StructAtIndex(index, field_layouts, structure) ==
    [e |-> "StructAtIndex", index |-> index, field_layouts |-> field_layouts,
     structure |-> structure]
UnionAtIndex(structure, tag_id, union_layout, index) ==
    [e |-> "UnionAtIndex", structure |-> structure, tag_id |-> tag_id,
     union_layout |-> union_layout, index |-> index]

ByName(name, arg_layouts, ret_layout, specialization_id, arguments) ==
    [call_type |-> "ByName", name |-> name, arg_layouts |-> arg_layouts,
     ret_layout |-> ret_layout, specialization_id |-> specialization_id,
     arguments |-> arguments]
Foreign(ret_layout, arguments) ==
    [call_type |-> "Foreign", ret_layout |-> ret_layout, arguments |-> arguments]
LowLevel(op, update_mode, arguments) ==
    [call_type |-> "LowLevel", op |-> op, update_mode |-> update_mode,
     arguments |-> arguments]
HigherOrderLowLevel(op, specialization_id, closure_env_layout, arg_layouts, ret_layout, arguments) ==
    [call_type |-> "HigherOrderLowLevel", op |-> op,
     specialization_id |-> specialization_id, closure_env_layout |-> closure_env_layout,
     arg_layouts |-> arg_layouts, ret_layout |-> ret_layout, arguments |-> arguments]

Proc(name, args, ret_layout, body) ==
    [name |-> name, args |-> args, ret_layout |-> ret_layout, body |-> body]

EntryPointOf(symbol, arguments, res) ==
    [symbol |-> symbol, layout |-> [arguments |-> arguments, result |-> res]]

\* all sequences over S of length lo..hi
SeqsOf(S, lo, hi) == UNION {[1..n -> S] : n \in lo..hi}

(***************************************************************************)
(* Inputs for the scoping of statements: Let chains and Joins over two     *)
(* variables, so that chains and parameters shadow each other and the      *)
(* procedure's argument.                                                   *)
(***************************************************************************)
MaxChain == 2
MaxParams == 1

Vars == {"x", "y"}

Leaves == {Ret(v) : v \in Vars} \cup {Jump("j", <<"x">>), RuntimeError}

RECURSIVE LetChain(_, _)
\* the chain Let s[1] = 0; ...; Let s[n] = 0; tail
LetChain(symbols, tail) ==
    IF symbols = <<>> THEN tail
    ELSE Let(Head(symbols), Literal("Int"), Int64, LetChain(Tail(symbols), tail))

Chains(tails) == {LetChain(q, tl) : q \in SeqsOf(Vars, 1, MaxChain), tl \in tails}

ParamLists == {[i \in 1..Len(q) |-> Param(q[i], Int64)] : q \in SeqsOf(Vars, 0, MaxParams)}

Joins(bodies, remainders) ==
    {Join("j", ps, b, r) : ps \in ParamLists, b \in bodies, r \in remainders}

Flat == Chains(Leaves) \cup Joins(Leaves, Leaves)

Nested ==
    Chains(Joins({Ret("x")}, Leaves)) \cup Joins(Chains({Ret("x"), Ret("y")}), Leaves)
        \cup Joins(Leaves, Chains({Jump("j", <<"x">>)}))
        \cup {Switch(<<a>>, b) : a \in Joins({Ret("x")}, {Jump("j", <<"x">>)}),
                                 b \in {Ret("x"), Ret("y")}}
        \cup {Refcounting("Inc", "x", c) : c \in Chains({Ret("x")})}

StmtCatalog == Flat \cup Nested

StmtProcs ==
    {Proc("f", args, Int64, body) :
        args \in {<<>>, <<Param("x", Int64)>>}, body \in StmtCatalog}

(***************************************************************************)
(* Inputs for the assembly of programs: procedures named f that differ in  *)
(* their layouts only, and procedures g that call f by name.  ClosA and    *)
(* ClosB are closures of different lambda sets with the same runtime       *)
(* representation, ClosC has another representation.                       *)
(***************************************************************************)
MaxProcs == 2

ClosA == Closure(<<Int64>>, "A", Struct(<<Int64>>), Int64)
ClosB == Closure(<<Int64>>, "B", Struct(<<Int64>>), Int64)
ClosC == Closure(<<Int64>>, "C", Struct(<<Str>>), Int64)

Signature(arguments, res) == [arguments |-> arguments, result |-> res]

Signatures ==
    {Signature(a, Int64) :
        a \in {<<>>, <<Int64>>, <<Str>>, <<ClosA>>, <<ClosB>>, <<ClosC>>,
               <<Struct(<<Int64>>)>>, <<Struct(<<ClosA>>)>>, <<Struct(<<ClosB>>)>>,
               <<Int64, Str>>, <<Str, Int64>>}}
        \cup {Signature(<<>>, r) : r \in {ClosA, ClosB, Struct(<<Int64>>)}}

\* the procedure f of a signature: its arguments are a1, a2, ...
Callee(sig) ==
    Proc("f",
         [i \in 1..Len(sig.arguments) |->
             Param(IF i = 1 THEN "a1" ELSE "a2", sig.arguments[i])],
         sig.result, LetChain(<<"r">>, Ret("r")))

\* a procedure g that calls the f of a signature
\* g passes its own arguments on to f; id is the call site's specialization id
Caller(sig, id) ==
    Proc("g", [i \in 1..Len(sig.arguments) |->
                  Param(IF i = 1 THEN "a1" ELSE "a2", sig.arguments[i])],
         sig.result,
         Let("r", CallExpr(ByName("f", sig.arguments, sig.result, id,
                                  [i \in 1..Len(sig.arguments) |->
                                      IF i = 1 THEN "a1" ELSE "a2"])),
             sig.result, Ret("r")))

SpecializationIds == {1, 2}

AsmProcs ==
    {Callee(sig) : sig \in Signatures}
        \cup {Caller(sig, id) : sig \in {Signature(<<ClosA>>, Int64), Signature(<<Int64>>, Int64)},
                                 id \in SpecializationIds}

EntryPoints == {EntryPointOf("f", <<ClosA>>, Int64), EntryPointOf("f", <<>>, Int64)}

(***************************************************************************)
(* spec_program as a state machine: one step per definition it builds.     *)
(***************************************************************************)
(***************************************************************************)
(* Inputs for the lowering of layouts: procedures f whose argument or      *)
(* return layout is a recursive union shape or a RecursivePointer.         *)
(***************************************************************************)
MaxFields == 2
MaxTags == 2

FieldLayouts == {Int64, RecursivePointer}

FieldSeqs == SeqsOf(FieldLayouts, 0, MaxFields)

TagSeqs == SeqsOf(FieldSeqs, 1, MaxTags)

\* the tag id that stands for the null pointer
NullableIds == {0, 1}

RecursiveLayouts ==
    {Recursive(tags) : tags \in TagSeqs}
        \cup {NonNullableUnwrapped(fs) : fs \in FieldSeqs}
        \cup {NullableWrapped(id, tags) : id \in NullableIds, tags \in TagSeqs}
        \cup {NullableUnwrapped(id, fs) : id \in NullableIds, fs \in FieldSeqs}
        \cup {RecursivePointer}

LayoutSignatures ==
    {Signature(<<l>>, Int64) : l \in RecursiveLayouts}
        \cup {Signature(<<>>, l) : l \in RecursiveLayouts}
        \cup {Signature(<<l, RecursivePointer>>, l) : l \in RecursiveLayouts}
        \cup {Signature(<<Struct(<<RecursivePointer, Int64>>)>>,
                        NonRecursive(<<<<RecursivePointer>>, <<>>>>))}

(***************************************************************************)
(* Inputs for the lowering of calls: procedures g whose body binds one     *)
(* low-level or higher-order call and returns it.  u is bound nowhere; f   *)
(* and h are names of procedures, which are never bound in env.symbols.    *)
(***************************************************************************)
MaxElems == 3

UpdateModes == {0, 1}

NumProcs ==
    {Proc("g", ps, l, Let("r", CallExpr(LowLevel(op, 0, <<a, b>>)), l, Ret("r"))) :
        op \in {"NumAdd", "NumSub"}, a \in {"x", "y", "u"}, b \in {"x", "y", "u"},
        l \in {Int64, Float64, Str},
        ps \in {<<>>, <<Param("x", Int64), Param("y", Int64)>>}}

ArrayProcs ==
    {Proc("g", <<Param("x", Int64), Param("y", Int64)>>, List(Int64),
          Let("xs", Array(Int64, elems), List(Int64),
              Let("r", CallExpr(LowLevel("ListAppend", um, <<"xs", e>>)), List(Int64),
                  Ret("r")))) :
        elems \in SeqsOf({"x", "y"}, 0, MaxElems), e \in {"x", "y"}, um \in UpdateModes}

HOParams ==
    <<Param("xs", List(Int64)), Param("ys", List(Int64)), Param("d", Dict(Int64, Int64)),
      Param("acc", Int64), Param("env", Struct(<<Int64>>))>>

\* call.arguments of a higher-order call: the collections, the accumulator
\* of a walk, the callback and the closure environment
HOArguments(op, a, b, callback) ==
    IF op = "ListMap2" THEN <<a, b, callback, "env">>
    ELSE IF op = "ListMap3" THEN <<a, b, "xs", callback, "env">>
    ELSE IF op \in {"ListWalk", "ListWalkUntil", "ListWalkBackwards"}
         THEN <<a, "acc", callback, "env">>
    ELSE IF op = "DictWalk" THEN <<"d", "acc", callback, "env">>
    ELSE <<a, callback, "env">>

HOProcs ==
    {Proc("g", HOParams, List(Int64),
          Let("r", CallExpr(HigherOrderLowLevel(op, 1, closure_env_layout, <<Int64>>, rl,
                                                HOArguments(op, a, b, callback))),
              List(Int64), Ret("r"))) :
        op \in HigherOrderOps, closure_env_layout \in {<<>>, <<Struct(<<Int64>>)>>},
        a \in {"xs", "ys"}, b \in {"xs", "ys"}, callback \in {"f", "h"},
        rl \in {Int64, Str}}

CallProcs == NumProcs \cup ArrayProcs \cup HOProcs

(***************************************************************************)
(* Inputs for references to unbound variables: procedures g over the       *)
(* parameters of HOParams and x, whose body refers to u, which is bound    *)
(* nowhere, in at most one place, or jumps to k, which no Join declares.   *)
(***************************************************************************)
MalParams == HOParams \o <<Param("x", Int64)>>

\* the sequences that differ from arguments by u in at most one of the slots
Holes(arguments, slots) ==
    {arguments} \cup {[arguments EXCEPT ![i] = "u"] : i \in slots}

LowLevelOps ==
    {"NumAdd", "NumSub", "Eq", "ListLen", "ListGetUnsafe", "ListSet", "ListAppend",
     "DictGetUnsafe", "DictInsert", "StrConcat"}

\* well-formed arguments of a low-level call
LowLevelArgs(op) ==
    IF op = "ListLen" THEN <<"xs">>
    ELSE IF op \in {"ListGetUnsafe", "ListAppend"} THEN <<"xs", "x">>
    ELSE IF op = "ListSet" THEN <<"xs", "x", "x">>
    ELSE IF op = "DictGetUnsafe" THEN <<"d", "x">>
    ELSE IF op = "DictInsert" THEN <<"d", "x", "x">>
    ELSE <<"x", "x">>

MalCalls ==
    UNION {{LowLevel(op, um, a) :
                 um \in UpdateModes, a \in Holes(LowLevelArgs(op), DOMAIN LowLevelArgs(op))} :
              op \in LowLevelOps}
      \cup UNION {{HigherOrderLowLevel(op, 1, <<Struct(<<Int64>>)>>, <<Int64>>, Int64, a) :
                      a \in Holes(HOArguments(op, "xs", "ys", "f"),
                                  DOMAIN HOArguments(op, "xs", "ys", "f")
                                      \ {callback_slot(op) + 1})} : op \in HigherOrderOps}
      \cup {ByName("f", <<Int64, Int64>>, Int64, 1, a) : a \in Holes(<<"x", "acc">>, {1, 2})}
      \cup {Foreign(Int64, a) : a \in Holes(<<"x", "acc">>, {1, 2})}

MalExprs ==
    {CallExpr(c) : c \in MalCalls}
      \cup {StructAtIndex(0, <<Int64>>, v) : v \in {"env", "u"}}
      \cup {UnionAtIndex(v, 0, ul, 0) :
                v \in {"x", "u"},
                ul \in {NonRecursive(<<<<Int64>>>>).union, Recursive(<<<<Int64>>>>).union}}
      \cup {Array(Int64, elems) : elems \in Holes(<<"x", "acc">>, {1, 2})}
      \cup {Reset(v) : v \in {"x", "u"}}

MalStmts ==
    {Let("r", e, Int64, Ret("r")) : e \in MalExprs}
      \cup {Invoke("r", c, Int64, Ret("r"), RuntimeError) : c \in MalCalls}
      \cup {Ret(v) : v \in {"x", "u"}}
      \cup {Refcounting(rc, v, Ret("x")) : rc \in {"Inc", "Dec", "DecRef"}, v \in {"x", "u"}}
      \cup {Join("j", <<Param("p", Int64)>>, Ret("p"), Jump(id, <<v>>)) :
                id \in {"j", "k"}, v \in {"x", "u"}}
      \cup {Jump("j", <<"x">>)}

MalProcs == {Proc("g", MalParams, Int64, body) : body \in MalStmts}

(***************************************************************************)
(* Inputs for the scoping of branches and fallible calls: procedures       *)
(* f(x) whose body is a fallible call or a Switch over statements that     *)
(* bind x again, or bind y.                                                *)
(***************************************************************************)
ScopeCall == ByName("g", <<>>, Int64, 1, <<>>)

Binders ==
    {Ret("x"), RuntimeError}
      \cup {Let(v, Literal("Int"), Int64, Ret(v)) : v \in Vars}
      \cup {Join("j", <<Param(v, Int64)>>, Ret(v), Jump("j", <<"x">>)) : v \in Vars}
      \cup {Invoke(v, ScopeCall, Int64, Ret(v), RuntimeError) : v \in Vars}

ScopeStmts ==
    Binders
      \cup {Invoke(v, ScopeCall, Int64, pass, fail) :
                v \in Vars, pass \in Binders, fail \in Binders}
      \cup {Switch(<<a>>, b) : a \in Binders, b \in Binders}

ScopeProcs == {Proc("f", <<Param("x", Int64)>>, Int64, body) : body \in ScopeStmts}

VARIABLES
    entry_point,   \* input: [symbol, layout: [arguments, result]]
    procs,         \* input: the sequence the procs iterator yields
    pc,            \* the place spec_program has reached
    next_proc,     \* index in procs of the next procedure to lower
    m,             \* ModDefBuilder: the consts and funcs added so far
    main_module,   \* whether m.build() has returned the module
    program,       \* whether p.build() has returned the program
    solve_calls,   \* how often morphic_lib::solve was called
    lowered,       \* how often proc_spec ran for each index of procs
    result,        \* "none" while running, then "Ok", "Err" or "panic"
    last           \* the builder state at the end of the latest proc_spec

vars == <<entry_point, procs, pc, next_proc, m, main_module, program, solve_calls,
          lowered, result, last>>

Inputs == <<entry_point, procs>>

(***************************************************************************)
(* The document registry of the language server (lang_srv, registry.rs):   *)
(* its state.  An Option and a OnceLock are sequences of length 0 or 1.    *)
(***************************************************************************)
VARIABLES
    documents,     \* Registry.documents: the map from Url to DocumentPair
    lock,          \* who holds the Mutex around documents: "free" or "request"
    request,       \* the call of latest_document_by_url in flight
    faulted,       \* whether a call of apply_changes has panicked
    updated        \* the documents update_document was called on in the step just taken

regvars == <<documents, lock, request, faulted, updated>>

allvars == <<vars, regvars>>

\* no call of latest_document_by_url is in flight
IdleRequest == [pc |-> "idle", url |-> "", elapsed |-> 0, result |-> <<>>]

\* Registry::default()
RegistryStart ==
    /\ documents = <<>>
    /\ lock = "free"
    /\ request = IdleRequest
    /\ faulted = FALSE
    /\ updated = <<>>

Start ==
    /\ pc = "static_str"
    /\ next_proc = 1
    /\ m = [consts |-> <<>>, funcs |-> <<>>]
    /\ main_module = FALSE
    /\ program = FALSE
    /\ solve_calls = 0
    /\ lowered = [i \in 1..Len(procs) |-> 0]
    /\ result = "none"
    /\ last = NewBuilder(0)
    /\ RegistryStart

\* An Err that is recorded while the loop carries on.
Abort_carry_on(s) ==
    /\ pc' = "procs"
    /\ result' = IF s.status = "err" THEN "Err" ELSE "panic"

\* `?`: return the Err at once.  A panic ends the run as well.
Abort(s) ==
    /\ pc' = "done"
    /\ result' = IF s.status = "err" THEN "Err" ELSE "panic"

\* The fallible calls a definition makes when none fails, the add_const or
\* add_func that registers it included: the places where an Err can arise.
FallibleCalls(d) == d.calls + 1

StaticStr ==
    /\ pc = "static_str"
    /\ \E fail_at \in 0..FallibleCalls(static_str_def(0)) :
       \E d \in {static_str_def(fail_at)} :
       \E s \in {add_to_module(d, "add_const", STATIC_STR_NAME)} :
          \/ /\ s.status = "ok"
             /\ m' = [m EXCEPT !.consts = Append(@, [fname |-> STATIC_STR_NAME,
                                                      def |-> FuncDef(d)])]
             /\ pc' = "entry_point"
             /\ UNCHANGED result
          \/ /\ s.status # "ok"
             /\ Abort(s)
             /\ UNCHANGED m
    /\ UNCHANGED <<Inputs, next_proc, main_module, program, solve_calls, lowered, last>>
    /\ UNCHANGED regvars

\* the name of the function mainForHost calls
roc_main_bytes ==
    func_name_bytes_help(entry_point.symbol, entry_point.layout.arguments,
                         entry_point.layout.result)

EntryPoint ==
    /\ pc = "entry_point"
    /\ \E fail_at \in
            0..FallibleCalls(build_entry_point(entry_point.layout, roc_main_bytes, 0)) :
       \E d \in {build_entry_point(entry_point.layout, roc_main_bytes, fail_at)} :
       \E s \in {add_to_module(d, "add_func", ENTRY_POINT_NAME)} :
          \/ /\ s.status = "ok"
             /\ m' = [m EXCEPT !.funcs = Append(@, [fname |-> ENTRY_POINT_NAME,
                                                     def |-> FuncDef(d)])]
             /\ pc' = "procs"
             /\ UNCHANGED result
          \/ /\ s.status # "ok"
             /\ Abort(s)
             /\ UNCHANGED m
    /\ UNCHANGED <<Inputs, next_proc, main_module, program, solve_calls, lowered, last>>
    /\ UNCHANGED regvars

\* one iteration of `for proc in procs`
LowerProc ==
    /\ pc = "procs"
    /\ next_proc <= Len(procs)
    /\ \E fail_at \in 0..FallibleCalls(proc_spec(procs[next_proc], 0)) :
       \E d \in {proc_spec(procs[next_proc], fail_at)} :
       \E s \in {add_to_module(d, "add_func", func_name_bytes(procs[next_proc]))} :
          /\ last' = s
          /\ lowered' = [lowered EXCEPT ![next_proc] = @ + 1]
          /\ \/ /\ s.status = "ok"
                /\ m' = [m EXCEPT !.funcs =
                            Append(@, [fname |-> func_name_bytes(procs[next_proc]),
                                       def |-> FuncDef(d)])]
                /\ next_proc' = next_proc + 1
                /\ UNCHANGED <<pc, result>>
             \/ /\ s.status # "ok"
                /\ Abort(s)
                /\ UNCHANGED <<m, next_proc>>
    /\ UNCHANGED <<Inputs, main_module, program, solve_calls>>
    /\ UNCHANGED regvars

\* A module that is built before the iterator is exhausted.
BuildModule_early ==
    /\ pc = "procs"
    /\ main_module' = TRUE
    /\ pc' = "program"
    /\ UNCHANGED <<Inputs, result, next_proc, m, program, solve_calls, lowered, last>>
    /\ UNCHANGED regvars

\* m.build()?
BuildModule ==
    /\ pc = "procs"
    /\ next_proc > Len(procs)
    /\ \/ /\ main_module' = TRUE
          /\ pc' = "program"
          /\ UNCHANGED result
       \/ /\ pc' = "done"
          /\ result' = "Err"
          /\ UNCHANGED main_module
    /\ UNCHANGED <<Inputs, next_proc, m, program, solve_calls, lowered, last>>
    /\ UNCHANGED regvars

\* p.add_mod(..)?; p.add_entry_point(..)?; p.build()?
BuildProgram ==
    /\ pc = "program"
    /\ \/ /\ program' = TRUE
          /\ pc' = "solve"
          /\ UNCHANGED result
       \/ /\ pc' = "done"
          /\ result' = "Err"
          /\ UNCHANGED program
    /\ UNCHANGED <<Inputs, next_proc, m, main_module, solve_calls, lowered, last>>
    /\ UNCHANGED regvars

\* morphic_lib::solve(program): a solution set or a structured failure
Solve ==
    /\ pc = "solve"
    /\ solve_calls' = solve_calls + 1
    /\ pc' = "done"
    /\ result' \in {"Ok", "Err"}
    /\ UNCHANGED <<Inputs, next_proc, m, main_module, program, lowered, last>>
    /\ UNCHANGED regvars

Next == StaticStr \/ EntryPoint \/ LowerProc \/ BuildModule \/ BuildProgram \/ Solve

\* spec_program on one procedure drawn from the statement catalog
InitStmt ==
    /\ entry_point = EntryPointOf("f", <<>>, Int64)
    /\ \E p \in StmtProcs : procs = <<p>>
    /\ Start

SpecStmt == InitStmt /\ [][Next]_vars

\* spec_program on an entry point and a sequence of at most MaxProcs procedures
Init ==
    /\ entry_point \in EntryPoints
    /\ procs \in SeqsOf(AsmProcs, 0, MaxProcs)
    /\ Start

Spec == Init /\ [][Next]_vars

(***************************************************************************)
(* Claims.                                                                 *)
(***************************************************************************)
\* spec_program on one procedure f with a recursive layout in its signature
InitLayout ==
    /\ \E sig \in LayoutSignatures :
          /\ procs = <<Callee(sig)>>
          /\ entry_point = EntryPointOf("f", sig.arguments, sig.result)
    /\ Start

SpecLayout == InitLayout /\ [][Next]_vars

\* spec_program on one procedure g that makes one call
InitCall ==
    /\ \E p \in CallProcs :
          /\ procs = <<p>>
          /\ entry_point =
                EntryPointOf("g", [i \in 1..Len(p.args) |-> p.args[i].layout], p.ret_layout)
    /\ Start

SpecCall == InitCall /\ [][Next]_vars

\* spec_program on one procedure g of MalProcs: one call, projection, array,
\* Reset, Return, refcount operation or Jump, well-formed or not
InitRefs ==
    /\ \E p \in MalProcs :
          /\ procs = <<p>>
          /\ entry_point =
                EntryPointOf("g", [i \in 1..Len(p.args) |-> p.args[i].layout], p.ret_layout)
    /\ Start

SpecRefs == InitRefs /\ [][Next]_vars

\* spec_program on one procedure f(x) drawn from ScopeProcs
InitScope ==
    /\ entry_point = EntryPointOf("f", <<Int64>>, Int64)
    /\ \E p \in ScopeProcs : procs = <<p>>
    /\ Start

SpecScope == InitScope /\ [][Next]_vars

(***************************************************************************)
(* The document registry: documents, handlers and the waiting request.     *)
(* Every handler holds the lock from its first statement to its last, so   *)
(* it is one step; latest_document_by_url takes the lock once per turn of  *)
(* its loop.  Time is counted in seconds.                                  *)
(***************************************************************************)
MaxVersion == 2
MaxBatch == 2

\* std::time::Duration::from_secs(5)
DURATION == 5

Urls == {"a", "b"}

\* the versions of the document that is edited, and of a module it imports
Versions(url) == IF url = "a" THEN 1..MaxVersion ELSE {1}

DocInfo(url, version) == [url |-> url, version |-> version]

AnalyzedDocument(url, version, type_checked) ==
    [doc_info |-> DocInfo(url, version), type_checked |-> type_checked]

DocInfos == {DocInfo(u, v) : u \in Urls, v \in 1..MaxVersion} \ {DocInfo("b", v) : v \in 2..MaxVersion}

AnalyzedDocuments ==
    {[doc_info |-> i, type_checked |-> tc] : i \in DocInfos, tc \in BOOLEAN}

\* analysed_docs: at most one document for each url
Batches ==
    {b \in SeqsOf(AnalyzedDocuments, 1, MaxBatch) :
        \A i \in DOMAIN b : \A j \in DOMAIN b :
            i # j => b[i].doc_info.url # b[j].doc_info.url}

DocumentPair(info, latest_document, last_good_document) ==
    [info |-> info, latest_document |-> latest_document,
     last_good_document |-> last_good_document]

\* DocumentPair::new: the OnceLock is set from the start
DocumentPair_new(latest_doc, last_good_document) ==
    DocumentPair(latest_doc.doc_info, <<latest_doc>>, last_good_document)

\* An update that always takes the new document as the last good one.
update_document_always_good(ds, document) ==
    MapInsert(ds, document.doc_info.url, DocumentPair_new(document, document))

update_document(ds, document) ==
    IF document.doc_info.url \in DOMAIN ds
    THEN IF document.type_checked
         THEN MapInsert(ds, document.doc_info.url, DocumentPair_new(document, document))
         ELSE MapInsert(ds, document.doc_info.url,
                        DocumentPair_new(document,
                                         ds[document.doc_info.url].last_good_document))
    ELSE MapInsert(ds, document.doc_info.url, DocumentPair_new(document, document))

RECURSIVE apply_changes_loop(_, _, _, _)
\* for document in analysed_docs: latest_document.set(..).unwrap() on the
\* entry of updating_url, which panics when the OnceLock is set already,
\* then update_document.  n: the documents update_document was called on.
apply_changes_loop(ds, analysed_docs, i, updating_url) ==
    IF i > Len(analysed_docs) THEN [documents |-> ds, n |-> i - 1, panic |-> FALSE]
    ELSE IF /\ analysed_docs[i].doc_info.url = updating_url
            /\ updating_url \in DOMAIN ds
            /\ ds[updating_url].latest_document # <<>>
         THEN [documents |-> ds, n |-> i - 1, panic |-> TRUE]
         ELSE apply_changes_loop(update_document(ds, analysed_docs[i]), analysed_docs,
                                 i + 1, updating_url)

ApplyChanges ==
    /\ lock = "free"
    /\ \E analysed_docs \in Batches : \E updating_url \in Urls :
       \E r \in {apply_changes_loop(documents, analysed_docs, 1, updating_url)} :
          /\ documents' = r.documents
          /\ updated' = SubSeq(analysed_docs, 1, r.n)
          /\ faulted' = (faulted \/ r.panic)
    /\ UNCHANGED <<lock, request>>
    /\ UNCHANGED vars

ApplyDocInfoChanges ==
    /\ lock = "free"
    /\ \E info \in DocInfos :
          documents' =
              IF info.url \in DOMAIN documents
              THEN MapInsert(documents, info.url,
                             DocumentPair(info, <<>>, documents[info.url].last_good_document))
              ELSE documents
    /\ updated' = <<>>
    /\ UNCHANGED <<lock, request, faulted>>
    /\ UNCHANGED vars

\* diagnostics, hover or goto_definition calls latest_document_by_url:
\* let start = Instant::now()
StartRequest ==
    /\ request.pc \in {"idle", "done"}
    /\ \E url \in Urls :
          request' = [pc |-> "head", url |-> url, elapsed |-> 0, result |-> <<>>]
    /\ updated' = <<>>
    /\ UNCHANGED <<documents, lock, faulted>>
    /\ UNCHANGED vars

\* while start.elapsed() < duration { .. self.documents.lock().await
PollAcquire ==
    /\ request.pc = "head"
    /\ request.elapsed < DURATION
    /\ lock = "free"
    /\ request' = [request EXCEPT !.pc = "locked"]
    /\ lock' = "request"
    /\ updated' = <<>>
    /\ UNCHANGED <<documents, faulted>>
    /\ UNCHANGED vars

\* the outcome of one look at the entry of url: Some(a) => return it,
\* None => (), no entry => return None
poll(req, ds) ==
    IF req.url \notin DOMAIN ds
    THEN [req EXCEPT !.pc = "done", !.result = <<>>, !.elapsed = 0]
    ELSE IF ds[req.url].latest_document # <<>>
    THEN [req EXCEPT !.pc = "done", !.result = ds[req.url].latest_document, !.elapsed = 0]
    ELSE [req EXCEPT !.pc = "head"]

\* A poll that keeps the lock while the document is not there yet.
PollCheck_keep_lock ==
    /\ request.pc = "locked"
    /\ request' = poll(request, documents)
    /\ lock' = IF request'.pc = "done" THEN "free" ELSE "request"
    /\ updated' = <<>>
    /\ UNCHANGED <<documents, faulted>>
    /\ UNCHANGED vars

\* match ..get(url) { .. }: the guard is dropped at the end of the match
PollCheck ==
    /\ request.pc = "locked"
    /\ request' = poll(request, documents)
    /\ lock' = "free"
    /\ updated' = <<>>
    /\ UNCHANGED <<documents, faulted>>
    /\ UNCHANGED vars

\* the loop condition fails: warn!("Timed out ..."); None
Timeout ==
    /\ request.pc = "head"
    /\ request.elapsed >= DURATION
    /\ request' = [request EXCEPT !.pc = "done", !.result = <<>>, !.elapsed = 0]
    /\ updated' = <<>>
    /\ UNCHANGED <<documents, lock, faulted>>
    /\ UNCHANGED vars

\* a second passes while the request is waiting
Tick ==
    /\ request.pc \in {"head", "locked"}
    /\ request.elapsed < DURATION
    /\ request' = [request EXCEPT !.elapsed = @ + 1]
    /\ updated' = <<>>
    /\ UNCHANGED <<documents, lock, faulted>>
    /\ UNCHANGED vars

NextRegistry ==
    \/ ApplyChanges \/ ApplyDocInfoChanges \/ StartRequest
    \/ PollAcquire \/ PollCheck \/ Timeout \/ Tick

\* a registry that starts empty, beside a lowering that has nothing to do
InitRegistry ==
    /\ entry_point = EntryPointOf("f", <<>>, Int64)
    /\ procs = <<>>
    /\ Start

SpecRegistry == InitRegistry /\ [][NextRegistry]_allvars

\* The runtime runs a task that can run, the Mutex hands the lock to a
\* waiter once it is free, and the clock advances.
SpecRegistryFair ==
    /\ SpecRegistry
    /\ WF_allvars(PollAcquire)
    /\ WF_allvars(PollCheck)
    /\ WF_allvars(Timeout)
    /\ WF_allvars(Tick)

ExitsOf(kind) ==
    {i \in 1..Len(last.trace) : last.trace[i].ev = "exit" /\ last.trace[i].kind = kind}

Range(f) == {f[i] : i \in DOMAIN f}

\* procs[i] has been lowered and added to the module
Registered(i) == i \in 1..Len(procs) /\ i + 1 <= Len(m.funcs)

\* the key procs[i] was registered under (funcs[1] is the entry point)
KeyOf(i) == m.funcs[i + 1].fname

\* the names called by the add_call operations of a definition
CalledNames(def) == {def.ops[k].fname : k \in {n \in DOMAIN def.ops : def.ops[n].op = "add_call"}}

CountOps(ops, name) == Cardinality({k \in DOMAIN ops : ops[k].op = name})

LayoutsOf(proc) == [i \in 1..Len(proc.args) |-> proc.args[i].layout]

\* the body of proc is a direct call of the symbol with these layouts
CallsByName(proc, symbol, argument_layouts, return_layout) ==
    /\ proc.body.stmt = "Let"
    /\ proc.body.expr.e = "Call"
    /\ proc.body.expr.call.call_type = "ByName"
    /\ proc.body.expr.call.name = symbol
    /\ proc.body.expr.call.arg_layouts = argument_layouts
    /\ proc.body.expr.call.ret_layout = return_layout

\* C1 (as claimed): when stmt_spec has finished a Let chain, none of the
\* chain's variables is in env.symbols; when it has finished a Join, none of
\* the join's parameters is in env.symbols and the join id is not in
\* env.join_points.
C1_ScopeDiscipline ==
    /\ \A i \in ExitsOf("Let") :
          Range(last.trace[i].bound) \cap DOMAIN last.trace[i].env.symbols = {}
    /\ \A i \in ExitsOf("Join") :
          /\ Range(last.trace[i].bound) \cap DOMAIN last.trace[i].env.symbols = {}
          /\ last.trace[i].id \notin DOMAIN last.trace[i].env.join_points

\* C2: a direct call, or the entry-point descriptor, whose symbol and ordered
\* argument and return layouts are those of a registered procedure calls
\* exactly the key that procedure is registered under; call sites with the
\* same symbol and layouts call the same key.
C2_IdentityStability ==
    \A i \in 1..Len(procs) : Registered(i) =>
        /\ (/\ entry_point.symbol = procs[i].name
            /\ entry_point.layout.arguments = LayoutsOf(procs[i])
            /\ entry_point.layout.result = procs[i].ret_layout)
               => CalledNames(m.funcs[1].def) = {KeyOf(i)}
        /\ \A j \in 1..Len(procs) : Registered(j) =>
              /\ CallsByName(procs[j], procs[i].name, LayoutsOf(procs[i]),
                             procs[i].ret_layout)
                    => CalledNames(m.funcs[j + 1].def) = {KeyOf(i)}
              /\ (/\ CallsByName(procs[i], "f", procs[i].body.expr.call.arg_layouts,
                                 procs[i].body.expr.call.ret_layout)
                  /\ CallsByName(procs[j], "f", procs[i].body.expr.call.arg_layouts,
                                 procs[i].body.expr.call.ret_layout))
                    => CalledNames(m.funcs[i + 1].def) = CalledNames(m.funcs[j + 1].def)

\* C2 witness: f over a closure argument and a g that calls it are both
\* registered, and the entry point names the same f.
C2_Witness ==
    /\ Len(procs) = 2
    /\ procs[1] = Callee(Signature(<<ClosA>>, Int64))
    /\ procs[2] = Caller(Signature(<<ClosA>>, Int64), 2)
    /\ entry_point = EntryPointOf("f", <<ClosA>>, Int64)
    /\ Registered(2)
    /\ CalledNames(m.funcs[3].def) = {KeyOf(1)}

\* what the key keeps of a layout: a closure counts as its lambda set's
\* runtime representation
KeyView(layout) ==
    IF layout.tag = "Closure" THEN layout.lambda_set.representation ELSE layout

KeyViews(proc) ==
    [i \in 1..Len(proc.args) + 1 |->
        IF i <= Len(proc.args) THEN KeyView(proc.args[i].layout)
        ELSE KeyView(proc.ret_layout)]

\* C3 (as claimed): two registered procedures with the same symbol whose
\* ordered argument layouts or return layouts differ have distinct keys.
C3_AsClaimed ==
    \A i, j \in 1..Len(procs) :
        (/\ Registered(i) /\ Registered(j)
         /\ procs[i].name = procs[j].name
         /\ \/ LayoutsOf(procs[i]) # LayoutsOf(procs[j])
            \/ procs[i].ret_layout # procs[j].ret_layout)
            => KeyOf(i) # KeyOf(j)

\* C3 (amended): two registered procedures with the same symbol whose
\* ordered argument layouts or return layouts differ, after every argument
\* or return layout that is itself a closure is replaced by its runtime
\* representation, have distinct keys.
C3_IdentitySensitivity ==
    \A i, j \in 1..Len(procs) :
        (/\ Registered(i) /\ Registered(j)
         /\ procs[i].name = procs[j].name
         /\ KeyViews(procs[i]) # KeyViews(procs[j]))
            => KeyOf(i) # KeyOf(j)

\* C3 witness: two procedures f that differ in a closure argument are both
\* registered, under distinct keys.
C3_Witness ==
    /\ Len(procs) = 2
    /\ procs[1] = Callee(Signature(<<ClosA>>, Int64))
    /\ procs[2] = Callee(Signature(<<ClosC>>, Int64))
    /\ Registered(2)
    /\ KeyOf(1) # KeyOf(2)

\* C9: every procedure the iterator yields is lowered once and registered
\* once, in order, under its own key; the module has one function mainForHost,
\* which calls the key of the entry-point descriptor, and one static-string
\* constant; the solver runs once, and only on the complete program.
C9_ProgramAssembly ==
    /\ \A i \in 1..Len(procs) : lowered[i] <= 1
    /\ solve_calls <= 1
    /\ Len(m.consts) <= 1
    /\ \A k \in 1..Len(m.consts) : m.consts[k].fname = STATIC_STR_NAME
    /\ Len(m.funcs) <= Len(procs) + 1
    /\ \A k \in 1..Len(m.funcs) :
          IF k = 1
          THEN /\ m.funcs[k].fname = ENTRY_POINT_NAME
               /\ CountOps(m.funcs[k].def.ops, "add_call") = 1
               /\ CalledNames(m.funcs[k].def) =
                     {func_name_bytes_help(entry_point.symbol,
                                           entry_point.layout.arguments,
                                           entry_point.layout.result)}
          ELSE /\ m.funcs[k].fname # ENTRY_POINT_NAME
               /\ m.funcs[k].fname =
                     func_name_bytes_help(procs[k - 1].name, LayoutsOf(procs[k - 1]),
                                          procs[k - 1].ret_layout)
               /\ lowered[k - 1] = 1
    /\ main_module =>
          /\ Len(m.consts) = 1
          /\ Len(m.funcs) = Len(procs) + 1
    /\ program => main_module
    /\ solve_calls = 1 => program
    /\ result = "Ok" => solve_calls = 1

\* C9 witness: a program of two procedures went through the solver.
C9_Witness ==
    /\ Len(procs) = 2
    /\ result = "Ok"
    /\ solve_calls = 1
    /\ Len(m.funcs) = 3

\* an Err arose before every definition was registered, that is while the
\* constant, the entry point or a procedure was lowered or added
LoweringErr ==
    /\ result = "Err"
    /\ \/ Len(m.consts) = 0
       \/ Len(m.funcs) <= Len(procs)

\* C10: once a builder operation has failed while the constant, the entry
\* point or a procedure is lowered, spec_program has returned the error: the
\* failing builder made no further call, no later procedure is lowered, no
\* module and no program is built and the solver is not invoked.
C10_ErrorsAbort ==
    LoweringErr =>
        /\ pc = "done"
        /\ \A j \in 1..Len(procs) :
              /\ lowered[j] <= 1
              /\ lowered[j] = 1 => j <= Len(m.funcs)
        /\ last.status = "err" => last.calls = last.fail_at
        /\ ~main_module
        /\ ~program
        /\ solve_calls = 0

\* C10 witness: lowering the first of two procedures failed and the second
\* was never lowered.
C10_Witness ==
    /\ Len(procs) = 2
    /\ result = "Err"
    /\ last.status = "err"
    /\ lowered = <<1, 0>>

(***************************************************************************)
(* Claims about the lowering of one procedure, read off the definition     *)
(* that was registered for procs[1].                                       *)
(***************************************************************************)
TheProc == procs[1]

TheDef == m.funcs[2].def

TypeOps == {"add_heap_cell_type", "add_bag_type", "add_tuple_type", "add_union_type"}

CountTypeOps(ops) == Cardinality({k \in DOMAIN ops : ops[k].op \in TypeOps})

\* the operation of def that produced the value v
OpOf(def, v) == def.ops[CHOOSE k \in DOMAIN def.ops : def.ops[k].res = v]

\* the handle of the argument sym of proc: the field of the argument tuple
HandleOf(def, proc, sym) ==
    LET k == CHOOSE i \in DOMAIN proc.args : proc.args[i].symbol = sym
        n == CHOOSE i \in DOMAIN def.ops :
                /\ def.ops[i].op = "add_get_tuple_field"
                /\ def.ops[i].ins = <<0>>
                /\ def.ops[i].aux = <<k - 1>>
    IN  def.ops[n].res

ArgHandles(def) ==
    {def.ops[i].res : i \in {n \in DOMAIN def.ops :
        def.ops[n].op = "add_get_tuple_field" /\ def.ops[n].ins = <<0>>}}

WorstCaseType == [t |-> "bag", item |-> [t |-> "heap_cell"]]

IsWorstCase(layout) ==
    \/ layout.tag = "RecursivePointer"
    \/ /\ layout.tag = "Union"
       /\ layout.union.u \in {"Recursive", "NonNullableUnwrapped", "NullableWrapped",
                              "NullableUnwrapped"}

\* C4: every argument and return layout that is a recursive union shape or a
\* RecursivePointer is given the one worst-case type, whatever its tags,
\* fields or nullable id; when all layouts of the signature are such, the
\* only types registered are one heap cell and one bag for each of them and
\* the tuple of the arguments: nothing is registered for any field.
C4_RecursiveConservatism ==
    Registered(1) =>
        /\ \A k \in 1..Len(TheProc.args) :
              IsWorstCase(TheProc.args[k].layout)
                  => TheDef.arg_type.items[k] = WorstCaseType
        /\ IsWorstCase(TheProc.ret_layout) => TheDef.ret_type = WorstCaseType
        /\ (/\ IsWorstCase(TheProc.ret_layout)
            /\ \A k \in 1..Len(TheProc.args) : IsWorstCase(TheProc.args[k].layout))
              => /\ CountTypeOps(TheDef.ops) = 2 * (Len(TheProc.args) + 1) + 1
                 /\ CountOps(TheDef.ops, "add_heap_cell_type") = Len(TheProc.args) + 1
                 /\ CountOps(TheDef.ops, "add_bag_type") = Len(TheProc.args) + 1

\* C4 witness: a procedure that takes a NullableUnwrapped union with a
\* pointer field and returns a Recursive union is registered.
C4_Witness ==
    /\ Registered(1)
    /\ Len(TheProc.args) = 2
    /\ TheProc.args[1].layout = NullableUnwrapped(1, <<Int64, RecursivePointer>>)
    /\ TheDef.arg_type.items[1] = WorstCaseType

IsLowLevel(proc, ops) ==
    /\ proc.body.stmt = "Let"
    /\ proc.body.expr.e = "Call"
    /\ proc.body.expr.call.call_type = "LowLevel"
    /\ proc.body.expr.call.op \in ops

\* the add_choice operations of a definition
Choices(def) == {k \in DOMAIN def.ops : def.ops[k].op = "add_choice"}

\* C5: a NumAdd or NumSub call is lowered, bound arguments or not, to one
\* choice between two blocks, the first yielding a unit tuple made of no
\* value and the second a terminate of the type of the call's layout; the
\* value of the call is the sub-block of that choice, and no operation reads
\* a handle of an argument.
C5_FallibleNumeric ==
    (Len(procs) = 1 /\ IsLowLevel(TheProc, {"NumAdd", "NumSub"})) =>
        /\ last.status # "panic"
        /\ Registered(1) =>
              /\ Cardinality(Choices(TheDef)) = 1
              /\ \A c \in Choices(TheDef) :
                    /\ Len(TheDef.ops[c].aux) = 4
                    /\ OpOf(TheDef, TheDef.ops[c].aux[2]).op = "add_make_tuple"
                    /\ OpOf(TheDef, TheDef.ops[c].aux[2]).ins = <<>>
                    /\ OpOf(TheDef, TheDef.ops[c].aux[2]).block = TheDef.ops[c].aux[1]
                    /\ OpOf(TheDef, TheDef.ops[c].aux[4]).op = "add_terminate"
                    /\ OpOf(TheDef, TheDef.ops[c].aux[4]).ty = TheDef.ret_type
                    /\ OpOf(TheDef, TheDef.ops[c].aux[4]).block = TheDef.ops[c].aux[3]
                    /\ TheDef.ops[c].aux[1] # TheDef.ops[c].aux[3]
                    /\ OpOf(TheDef, TheDef.root[2]).op = "add_sub_block"
                    /\ OpOf(TheDef, TheDef.root[2]).aux[2] = TheDef.ops[c].res
              /\ \A k \in DOMAIN TheDef.ops :
                    Range(TheDef.ops[k].ins) \cap ArgHandles(TheDef) = {}

\* C5 witness: a NumAdd of two bound arguments with a result of type Str is
\* registered with its choice.
C5_Witness ==
    /\ Len(procs) = 1
    /\ IsLowLevel(TheProc, {"NumAdd"})
    /\ TheProc.body.expr.call.arguments = <<"x", "y">>
    /\ Len(TheProc.args) = 2
    /\ TheProc.ret_layout = Str
    /\ Registered(1)
    /\ Cardinality(Choices(TheDef)) = 1

IsArrayThenAppend(proc) ==
    /\ proc.body.stmt = "Let"
    /\ proc.body.expr.e = "Array"
    /\ IsLowLevel([body |-> proc.body.continuation], {"ListAppend"})

\* C6 (as claimed): an array of n elements followed by one ListAppend on it
\* is lowered with one add_new_heap_cell, n + 1 add_bag_insert and one
\* add_update, and the value of the append is the handle of the array.
C6_ArrayThenAppend ==
    (Len(procs) = 1 /\ IsArrayThenAppend(TheProc) /\ Registered(1)) =>
        /\ CountOps(TheDef.ops, "add_new_heap_cell") = 1
        /\ CountOps(TheDef.ops, "add_bag_insert") = Len(TheProc.body.expr.elems) + 1
        /\ CountOps(TheDef.ops, "add_update") = 1
        /\ OpOf(TheDef, TheDef.root[2]).op = "add_make_tuple"
        /\ \A k \in DOMAIN TheDef.ops :
              TheDef.ops[k].op = "add_update" =>
                  OpOf(TheDef, TheDef.ops[k].ins[1]).ins = <<TheDef.root[2]>>

IsHigherOrder(proc) ==
    /\ proc.body.stmt = "Let"
    /\ proc.body.expr.e = "Call"
    /\ proc.body.expr.call.call_type = "HigherOrderLowLevel"

\* the collections an opcode draws from and the slot of its callback, slots
\* counted from 0
CollectionSlots(op) ==
    IF op = "ListMap2" THEN {0, 1} ELSE IF op = "ListMap3" THEN {0, 1, 2} ELSE {0}

CallbackSlotOf(op) ==
    IF op \in {"ListMap2", "ListWalk", "ListWalkUntil", "ListWalkBackwards", "DictWalk"}
    THEN 2
    ELSE IF op = "ListMap3" THEN 3 ELSE 1

\* the indices of the operations that draw from the bag of the value v
DrawsFrom(def, v) ==
    {k \in DOMAIN def.ops :
        /\ def.ops[k].op = "add_bag_get"
        /\ OpOf(def, def.ops[k].ins[1]).op = "add_get_tuple_field"
        /\ OpOf(def, def.ops[k].ins[1]).ins = <<v>>
        /\ OpOf(def, def.ops[k].ins[1]).aux = <<1>>}

\* the handles of call.arguments without the slot of the callback
OtherHandles(def, proc, arguments, slot) ==
    [i \in 1..(Len(arguments) - 1) |->
        HandleOf(def, proc, arguments[IF i <= slot THEN i ELSE i + 1])]

\* C7: a higher-order call whose callback names a procedure is lowered with
\* one add_bag_get for each collection slot, drawn from the bag of that
\* collection, and with one add_call, to the key of the callback symbol and
\* the call's argument and return layouts, on a tuple that ends with the
\* handle of the closure environment when closure_env_layout is Some and
\* does not hold it when None; the value of the call is an add_unknown_with
\* over the handles of the other arguments, typed by the call's layout.
C7_HigherOrder ==
    (Len(procs) = 1 /\ IsHigherOrder(TheProc) /\ Registered(1)) =>
        LET call == TheProc.body.expr.call
            env_handle == HandleOf(TheDef, TheProc, call.arguments[Len(call.arguments)])
        IN  /\ CountOps(TheDef.ops, "add_bag_get") = Cardinality(CollectionSlots(call.op))
            /\ \A i \in CollectionSlots(call.op) :
                  DrawsFrom(TheDef, HandleOf(TheDef, TheProc, call.arguments[i + 1])) # {}
            /\ CountOps(TheDef.ops, "add_call") = 1
            /\ CalledNames(TheDef) =
                  {func_name_bytes_help(call.arguments[CallbackSlotOf(call.op) + 1],
                                        call.arg_layouts, call.ret_layout)}
            /\ \A k \in DOMAIN TheDef.ops :
                  TheDef.ops[k].op = "add_call" =>
                      /\ OpOf(TheDef, TheDef.ops[k].ins[1]).op = "add_make_tuple"
                      /\ IF call.closure_env_layout # <<>>
                         THEN /\ OpOf(TheDef, TheDef.ops[k].ins[1]).ins # <<>>
                              /\ OpOf(TheDef, TheDef.ops[k].ins[1]).ins[
                                    Len(OpOf(TheDef, TheDef.ops[k].ins[1]).ins)] = env_handle
                         ELSE env_handle \notin Range(OpOf(TheDef, TheDef.ops[k].ins[1]).ins)
            /\ OpOf(TheDef, TheDef.root[2]).op = "add_unknown_with"
            /\ OpOf(TheDef, TheDef.root[2]).ty = TheDef.ret_type
            /\ OpOf(TheDef, TheDef.root[2]).ins =
                  OtherHandles(TheDef, TheProc, call.arguments, CallbackSlotOf(call.op))

\* C7 witness: a ListMap2 over two lists without a closure environment is
\* registered with its two draws.
C7_Witness ==
    /\ Len(procs) = 1
    /\ IsHigherOrder(TheProc)
    /\ TheProc.body.expr.call.op = "ListMap2"
    /\ TheProc.body.expr.call.arguments = <<"xs", "ys", "f", "env">>
    /\ TheProc.body.expr.call.closure_env_layout = <<>>
    /\ Registered(1)
    /\ CountOps(TheDef.ops, "add_bag_get") = 2

(***************************************************************************)
(* References to unbound variables and undeclared join points.             *)
(***************************************************************************)
ArgSymbols(proc) == {proc.args[i].symbol : i \in 1..Len(proc.args)}

\* the slots of call.arguments, counted from 1, whose variable the lowering
\* of the call looks up in env.symbols
ReadSlots(call) ==
    IF call.call_type \in {"ByName", "Foreign"} THEN DOMAIN call.arguments
    ELSE IF call.call_type = "HigherOrderLowLevel"
         THEN DOMAIN call.arguments \ {callback_slot(call.op) + 1}
    ELSE IF call.op \in {"NumAdd", "NumSub", "Eq", "ListLen"} THEN {}
    ELSE IF call.op = "ListGetUnsafe" THEN {1}
    ELSE IF call.op = "ListSet" THEN {1, 3}
    ELSE DOMAIN call.arguments

\* the slots of call.arguments that hold a value
ValueSlots(call) ==
    IF call.call_type = "HigherOrderLowLevel"
    THEN DOMAIN call.arguments \ {callback_slot(call.op) + 1}
    ELSE DOMAIN call.arguments

CallRefs(call, read_only) ==
    {call.arguments[i] : i \in IF read_only THEN ReadSlots(call) ELSE ValueSlots(call)}

\* the variables a statement of MalStmts names where it is lowered first
HeadRefs(stmt, read_only) ==
    IF stmt.stmt = "Let"
    THEN IF stmt.expr.e = "Call" THEN CallRefs(stmt.expr.call, read_only)
         ELSE IF stmt.expr.e \in {"StructAtIndex", "UnionAtIndex"} THEN {stmt.expr.structure}
         ELSE IF stmt.expr.e = "Array" THEN Range(stmt.expr.elems)
         ELSE IF stmt.expr.e = "Reset" THEN {stmt.expr.symbol}
         ELSE {}
    ELSE IF stmt.stmt = "Invoke" THEN CallRefs(stmt.call, read_only)
    ELSE IF stmt.stmt \in {"Ret", "Refcounting"} THEN {stmt.symbol}
    ELSE IF stmt.stmt = "Jump" THEN Range(stmt.symbols)
    ELSE {}

\* The procedure of MalProcs names an unbound variable in one of the places
\* (read_only: in one of the places the lowering looks up), or jumps to a
\* join id that is not in env.join_points.
Malformed(proc, read_only) ==
    IF proc.body.stmt = "Join"
    THEN \/ ~(HeadRefs(proc.body.remainder, read_only) \subseteq ArgSymbols(proc))
         \/ proc.body.remainder.stmt = "Jump" /\ proc.body.remainder.id # proc.body.id
    ELSE \/ ~(HeadRefs(proc.body, read_only) \subseteq ArgSymbols(proc))
         \/ proc.body.stmt = "Jump"

\* C11 as stated: when no builder operation fails, lowering a procedure that
\* names an unbound variable in a Return, a refcount operation, a Jump
\* argument, a value argument of any call, a field projection, an array
\* element or a Reset, or that jumps to an undeclared join id, ends in a panic.
C11_AsClaimed ==
    (Malformed(TheProc, FALSE) /\ lowered[1] = 1 /\ last.fail_at = 0)
        => last.status = "panic" /\ result = "panic"

\* C11, amended: a procedure that names an unbound variable in a place the
\* lowering looks up, or jumps to an undeclared join id, is never registered
\* and never leads to a program; its lowering ends in a panic unless a
\* builder operation issued before the reference failed, which is the only
\* way it yields a returned error.
C11_MalformedIsFatal ==
    Malformed(TheProc, TRUE) =>
        /\ ~Registered(1)
        /\ ~main_module /\ ~program /\ result # "Ok"
        /\ lowered[1] = 1 =>
              /\ last.status \in {"panic", "err"}
              /\ result = (IF last.status = "err" THEN "Err" ELSE "panic")
              /\ last.status = "err" => last.fail_at = last.calls
              /\ last.fail_at = 0 => last.status = "panic"

\* a higher-order call with an unbound collection has ended in a panic
C11_Witness ==
    /\ Malformed(TheProc, TRUE)
    /\ TheProc.body.stmt = "Let"
    /\ TheProc.body.expr.e = "Call"
    /\ TheProc.body.expr.call.call_type = "HigherOrderLowLevel"
    /\ lowered[1] = 1
    /\ last.status = "panic"
    /\ result = "panic"

(***************************************************************************)
(* Scoping of statements, read off the calls and returns of stmt_spec.     *)
(***************************************************************************)
TraceEvents(ev) == {i \in 1..Len(last.trace) : last.trace[i].ev = ev}

\* C13 (as claimed): whenever stmt_spec returns successfully, env.symbols is
\* what it was at the call, so a variable of the enclosing scope whose name a
\* Let or a fallible call binds again is still bound to its original handle.
C13_StackDiscipline ==
    \A i \in TraceEvents("exit") : last.trace[i].env.symbols = last.trace[i].env_in.symbols

RoleEnters(role) == {i \in TraceEvents("enter") : last.trace[i].role = role}

\* the call of stmt_spec that made call i: the latest call one level up
Parent(i) ==
    CHOOSE k \in 1..(i - 1) :
        /\ last.trace[k].ev = "enter"
        /\ last.trace[k].depth = last.trace[i].depth - 1
        /\ \A n \in (k + 1)..(i - 1) :
              ~(last.trace[n].ev = "enter" /\ last.trace[n].depth = last.trace[i].depth - 1)

\* the continuations declared so far
Declared ==
    {last.ops[k].aux[1] :
        k \in {n \in DOMAIN last.ops : last.ops[n].op = "declare_continuation"}}

\* C14: the remainder of a Join is lowered in the symbols of the Join's own
\* call, so a name that is also a join parameter resolves to its outer
\* binding, and when the remainder has returned nothing new is bound; the
\* body is lowered only after the remainder has returned; in both, the join
\* id maps to the continuation that was declared, and that is the
\* continuation every Jump is lowered to.
C14_JoinOrdering ==
    /\ \A r \in RoleEnters("remainder") :
          /\ last.trace[Parent(r)].kind = "Join"
          /\ last.trace[r].env.symbols = last.trace[Parent(r)].env.symbols
    /\ \A e \in TraceEvents("exit") :
          last.trace[e].role = "remainder" =>
              \A y \in DOMAIN last.trace[e].env.symbols :
                  /\ y \in DOMAIN last.trace[e].env_in.symbols
                  /\ last.trace[e].env.symbols[y] = last.trace[e].env_in.symbols[y]
    /\ \A b \in RoleEnters("body") :
          \E r \in RoleEnters("remainder") :
          \E e \in TraceEvents("exit") :
              /\ r < e /\ e < b
              /\ Parent(r) = Parent(b)
              /\ last.trace[e].role = "remainder"
              /\ last.trace[e].depth = last.trace[r].depth
    /\ \A i \in RoleEnters("remainder") \cup RoleEnters("body") :
          \E jpid \in Declared :
              last.trace[i].env.join_points =
                  MapInsert(last.trace[Parent(i)].env.join_points, "j", jpid)
    /\ \A k \in DOMAIN last.ops :
          last.ops[k].op = "add_jump" => last.ops[k].aux[1] \in Declared

\* f(x) with a Join whose parameter is x again and whose remainder and body
\* both jump to it has been lowered
C14_Witness ==
    /\ Len(TheProc.args) = 1
    /\ last.status = "ok"
    /\ CountOps(last.ops, "add_jump") = 2
    /\ \E i \in ExitsOf("Join") : last.trace[i].bound = <<"x">>

\* the handles the add_call operations of a block return
CallHandles(block) ==
    {last.ops[k].res :
        k \in {n \in DOMAIN last.ops :
                  last.ops[n].op = "add_call" /\ last.ops[n].block = block}}

\* C15 (as claimed): the call of an Invoke is lowered in the Invoke's block;
\* the success continuation is lowered in another block, in the symbols of
\* the Invoke plus the result variable bound to the call's handle; the
\* failure continuation is lowered in a third block, in the symbols in force
\* at the Invoke; the value of the Invoke is one choice over these two
\* blocks, success first.
C15_FallibleCallEncoding ==
    /\ \A p \in RoleEnters("pass") :
          /\ last.trace[p].block # last.trace[Parent(p)].block
          /\ \E y \in Vars : \E v \in CallHandles(last.trace[Parent(p)].block) :
                last.trace[p].env.symbols =
                    MapInsert(last.trace[Parent(p)].env.symbols, y, v)
    /\ \A f \in RoleEnters("fail") :
          /\ last.trace[f].block # last.trace[Parent(f)].block
          /\ \A p \in RoleEnters("pass") :
                Parent(p) = Parent(f) => last.trace[p].block # last.trace[f].block
          /\ last.trace[f].env.symbols = last.trace[Parent(f)].env.symbols
    /\ \A i \in ExitsOf("Invoke") :
          /\ OpOf(last, last.trace[i].v).op = "add_choice"
          /\ OpOf(last, last.trace[i].v).block = last.trace[i].block
          /\ \E p \in RoleEnters("pass") : \E f \in RoleEnters("fail") :
                /\ p < f /\ f < i
                /\ last.trace[p].depth = last.trace[i].depth + 1
                /\ last.trace[f].depth = last.trace[i].depth + 1
                /\ Len(OpOf(last, last.trace[i].v).aux) = 4
                /\ OpOf(last, last.trace[i].v).aux[1] = last.trace[p].block
                /\ OpOf(last, last.trace[i].v).aux[3] = last.trace[f].block

\* C20 (as claimed): every branch of a Switch and the failure continuation
\* of an Invoke are lowered in the symbols in force at the Switch or Invoke,
\* and the success continuation in these symbols but for the result
\* variable: nothing that was bound while an earlier sibling was lowered is
\* visible, and no outer binding is gone.
C20_SiblingIsolation ==
    /\ \A i \in RoleEnters("branch") \cup RoleEnters("fail") :
          last.trace[i].env.symbols = last.trace[Parent(i)].env.symbols
    /\ \A p \in RoleEnters("pass") :
          \E y \in DOMAIN last.trace[p].env.symbols :
              MapRemove(last.trace[p].env.symbols, y) =
                  MapRemove(last.trace[Parent(p)].env.symbols, y)

(***************************************************************************)
(* The shape of the worst-case type.                                       *)
(***************************************************************************)
IsCellAndBag(ty) ==
    /\ ty.t = "tuple"
    /\ Len(ty.items) = 2
    /\ ty.items[1].t = "heap_cell"
    /\ ty.items[2].t = "bag"

IsBagOfCells(ty) == ty.t = "bag" /\ ty.item.t = "heap_cell"

\* C16 (as claimed): the type of every argument and return layout that is a
\* recursive union shape or a RecursivePointer is a tuple of two components,
\* a heap cell and a bag.
C16_AsClaimed ==
    Registered(1) =>
        /\ \A k \in 1..Len(TheProc.args) :
              IsWorstCase(TheProc.args[k].layout) => IsCellAndBag(TheDef.arg_type.items[k])
        /\ IsWorstCase(TheProc.ret_layout) => IsCellAndBag(TheDef.ret_type)

\* C16, amended: the type of every recursive union shape and of a
\* RecursivePointer, as an argument, as the return layout or as a field of
\* a struct argument, is a single bag type whose elements are heap cells; it
\* is no tuple and has no heap-cell component of its own.
C16_WorstCaseIsBagOfCells ==
    Registered(1) =>
        /\ \A k \in 1..Len(TheProc.args) :
              /\ IsWorstCase(TheProc.args[k].layout)
                    => /\ IsBagOfCells(TheDef.arg_type.items[k])
                       /\ ~IsCellAndBag(TheDef.arg_type.items[k])
              /\ TheProc.args[k].layout.tag = "Struct"
                    => \A j \in 1..Len(TheProc.args[k].layout.fields) :
                          IsWorstCase(TheProc.args[k].layout.fields[j])
                              => IsBagOfCells(TheDef.arg_type.items[k].items[j])
        /\ IsWorstCase(TheProc.ret_layout)
              => IsBagOfCells(TheDef.ret_type) /\ ~IsCellAndBag(TheDef.ret_type)

\* a procedure that returns a raw RecursivePointer and one that takes a
\* NonNullableUnwrapped union are registered with a bag of heap cells
C16_Witness ==
    /\ Registered(1)
    /\ \/ TheProc.ret_layout = RecursivePointer /\ IsBagOfCells(TheDef.ret_type)
       \/ /\ Len(TheProc.args) = 1
          /\ TheProc.args[1].layout = NonNullableUnwrapped(<<Int64, RecursivePointer>>)
          /\ IsBagOfCells(TheDef.arg_type.items[1])

(***************************************************************************)
(* Writes to collections.                                                  *)
(***************************************************************************)
OpsNamed(def, name) == {k \in DOMAIN def.ops : def.ops[k].op = name}

\* the handle of the argument in slot i, counted from 1, of the call that
\* the body of TheProc binds
SlotHandle(i) == HandleOf(TheDef, TheProc, TheProc.body.expr.call.arguments[i])

\* v is the field index of the tuple c
Projects(v, c, index) ==
    /\ OpOf(TheDef, v).op = "add_get_tuple_field"
    /\ OpOf(TheDef, v).ins = <<c>>
    /\ OpOf(TheDef, v).aux = <<index>>

\* C17: a ListSet, ListAppend or DictInsert is lowered to exactly one
\* add_update, tagged with the call's update mode, on the cell projected
\* from the collection argument, and exactly one add_bag_insert into the bag
\* projected from it, of the new element or of the tuple (key, value); no
\* heap cell is allocated, and the value of the call is the handle of the
\* collection argument itself.
C17_CollectionWrites ==
    (IsLowLevel(TheProc, {"ListSet", "ListAppend", "DictInsert"}) /\ Registered(1)) =>
        /\ CountOps(TheDef.ops, "add_update") = 1
        /\ CountOps(TheDef.ops, "add_bag_insert") = 1
        /\ CountOps(TheDef.ops, "add_new_heap_cell") = 0
        /\ TheDef.root[2] = SlotHandle(1)
        /\ \A k \in OpsNamed(TheDef, "add_update") :
              /\ TheDef.ops[k].aux = <<TheProc.body.expr.call.update_mode>>
              /\ Projects(TheDef.ops[k].ins[1], SlotHandle(1), LIST_CELL_INDEX)
        /\ \A k \in OpsNamed(TheDef, "add_bag_insert") :
              /\ Projects(TheDef.ops[k].ins[1], SlotHandle(1), LIST_BAG_INDEX)
              /\ IF TheProc.body.expr.call.op = "ListSet"
                 THEN TheDef.ops[k].ins[2] = SlotHandle(3)
                 ELSE IF TheProc.body.expr.call.op = "ListAppend"
                 THEN TheDef.ops[k].ins[2] = SlotHandle(2)
                 ELSE /\ OpOf(TheDef, TheDef.ops[k].ins[2]).op = "add_make_tuple"
                      /\ OpOf(TheDef, TheDef.ops[k].ins[2]).ins
                            = <<SlotHandle(2), SlotHandle(3)>>

\* a DictInsert with update mode 1 has been lowered and registered
C17_Witness ==
    /\ IsLowLevel(TheProc, {"DictInsert"})
    /\ TheProc.body.expr.call.update_mode = 1
    /\ Registered(1)
    /\ CountOps(TheDef.ops, "add_bag_insert") = 1
    /\ TheDef.root[2] = SlotHandle(1)

(***************************************************************************)
(* What a write leaves in the collection it returns.                       *)
(***************************************************************************)
\* the values of def that are the bag of the collection c: the projections
\* of its bag field and, when c was made as a tuple, the bag it was made of
BagsOf(def, c) ==
    {def.ops[k].res : k \in {n \in DOMAIN def.ops :
        /\ def.ops[n].op = "add_get_tuple_field"
        /\ def.ops[n].ins = <<c>>
        /\ def.ops[n].aux = <<LIST_BAG_INDEX>>}}
    \cup {def.ops[k].ins[LIST_BAG_INDEX + 1] : k \in {n \in DOMAIN def.ops :
        /\ def.ops[n].res = c
        /\ def.ops[n].op = "add_make_tuple"
        /\ Len(def.ops[n].ins) > LIST_BAG_INDEX}}

\* C21 (as claimed): after a ListAppend, ListSet or DictInsert the bag of
\* the collection that the call returns is the bag that add_bag_insert
\* produced, so that a later read of the result can draw the new element.
C21_InsertedReachable ==
    (IsLowLevel(TheProc, {"ListSet", "ListAppend", "DictInsert"}) /\ Registered(1)) =>
        \E k \in OpsNamed(TheDef, "add_bag_insert") :
            TheDef.ops[k].res \in BagsOf(TheDef, TheDef.root[2])

(***************************************************************************)
(* Independence of the procedures.                                         *)
(***************************************************************************)
\* the procedure the latest proc_spec was called on
LastProc == procs[IF last.status = "ok" THEN next_proc - 1 ELSE next_proc]

\* C18: the body of every procedure is lowered from an environment whose
\* symbols are exactly the procedure's own arguments, each bound to its
\* field of the function's argument, and which has no join points; the
\* definition registered for a procedure is the one its lowering gives on
\* its own, wherever it stands in the sequence, so equal procedures get
\* equal definitions.
C18_ProcedureIndependence ==
    /\ Len(last.trace) > 0 =>
          /\ last.trace[1].role = "proc"
          /\ last.trace[1].env.join_points = <<>>
          /\ DOMAIN last.trace[1].env.symbols = ArgSymbols(LastProc)
          /\ \A k \in 1..Len(LastProc.args) :
                /\ OpOf(last, last.trace[1].env.symbols[LastProc.args[k].symbol]).op
                      = "add_get_tuple_field"
                /\ OpOf(last, last.trace[1].env.symbols[LastProc.args[k].symbol]).ins
                      = <<ARGUMENT>>
                /\ OpOf(last, last.trace[1].env.symbols[LastProc.args[k].symbol]).aux
                      = <<k - 1>>
    /\ \A i \in 1..Len(procs) :
          Registered(i) =>
              /\ m.funcs[i + 1].def = FuncDef(proc_spec(procs[i], 0))
              /\ \A j \in 1..Len(procs) :
                    (Registered(j) /\ procs[j] = procs[i])
                        => m.funcs[j + 1].def = m.funcs[i + 1].def

\* two different procedures are registered, the second of which has two
\* arguments
C18_Witness ==
    /\ Registered(2)
    /\ procs[1] # procs[2]
    /\ Len(procs[1].args) = 1
    /\ Len(procs[2].args) = 2
    /\ last.status = "ok"
    /\ DOMAIN last.trace[1].env.symbols = {"a1", "a2"}

(***************************************************************************)
(* The document registry.                                                  *)
(***************************************************************************)
Waiting == request.pc \in {"head", "locked"}

\* C12: every call of latest_document_by_url returns.  A poll gives the lock
\* back and returns None when the url has no entry, returns the document in
\* latest_document when that is set, and goes round the loop otherwise; the
\* only other way to return is None once DURATION has elapsed; while the
\* request waits between two polls, apply_changes and apply_doc_info_changes
\* can run.
C12_LatestDocumentTerminates ==
    /\ [][PollCheck =>
             /\ lock' = "free"
             /\ IF request.url \notin DOMAIN documents
                THEN request'.pc = "done" /\ request'.result = <<>>
                ELSE IF documents[request.url].latest_document # <<>>
                THEN /\ request'.pc = "done"
                     /\ request'.result = documents[request.url].latest_document
                ELSE request'.pc = "head"]_allvars
    /\ [][(request.pc = "head" /\ request'.pc = "done")
             => (request.elapsed >= DURATION /\ request'.result = <<>>)]_allvars
    /\ [](request.pc = "head" => (ENABLED ApplyChanges /\ ENABLED ApplyDocInfoChanges))
    /\ (Waiting ~> request.pc = "done")

\* a request for a has returned the document a poll found, and the entry
\* has been reset since
C12_Witness ==
    /\ request.pc = "done"
    /\ request.url = "a"
    /\ request.result = <<AnalyzedDocument("a", 2, FALSE)>>
    /\ documents["a"].latest_document = <<>>

\* C19: update_document on a url that has an entry replaces the entry's info
\* and latest_document by the new document's; it replaces last_good_document
\* by the new document when that type-checked, and leaves it as it was
\* otherwise.
C19_UpdateDocument ==
    [][\A k \in DOMAIN updated' :
          updated'[k].doc_info.url \in DOMAIN documents =>
              /\ documents'[updated'[k].doc_info.url].info = updated'[k].doc_info
              /\ documents'[updated'[k].doc_info.url].latest_document = <<updated'[k]>>
              /\ documents'[updated'[k].doc_info.url].last_good_document =
                    IF updated'[k].type_checked THEN updated'[k]
                    ELSE documents[updated'[k].doc_info.url].last_good_document]_allvars

\* a document that did not type-check has replaced the latest document of an
\* entry whose last good document is another one
C19_Witness ==
    /\ updated = <<AnalyzedDocument("a", 2, FALSE)>>
    /\ "a" \in DOMAIN documents
    /\ documents["a"].latest_document = updated
    /\ documents["a"].last_good_document = AnalyzedDocument("a", 1, TRUE)

\* C22 (as claimed): apply_changes never panics: whenever it comes to the
\* document of updating_url and that url has an entry, the entry's
\* latest_document is unset, so that set(..).unwrap() succeeds.
C22_ApplyChangesNeverFaults == faulted = FALSE

\* C23 (as claimed): versions do not regress.  An entry whose
\* latest_document is unset holds the info that the latest
\* apply_doc_info_changes gave it; an apply_changes that writes the entry
\* (it leaves latest_document set) does not replace that info by one of an
\* older version.
C23_VersionsDoNotRegress ==
    [][\A url \in DOMAIN documents :
          (documents[url].latest_document = <<>> /\ documents'[url].latest_document # <<>>)
              => documents'[url].info.version >= documents[url].info.version]_allvars

\* C24 (as claimed): the last_good_document of every entry of the registry
\* is a document that type-checked.
C24_LastGoodTypeChecked ==
    \A url \in DOMAIN documents : documents[url].last_good_document.type_checked

====
